---- MODULE Spec2Model ----
(***************************************************************************)
(* The legal-AI service (src/ai_service), in eight components, each with    *)
(* its own variables and its own specification:                            *)
(*                                                                         *)
(*   Spec, FairSpec  batch_processor.py: the job and batch life cycle, the *)
(*                   per-batch thread pool, the process-wide LLM semaphore *)
(*                   and the collection of job results by the batch thread *)
(*   ClientSpec      app.py: one OllamaClient.generate call and the route  *)
(*                   that makes it                                         *)
(*   GatherSpec      app.py: one OllamaClient.generate_batch call          *)
(*   ChunkSpec       app.py chunk_text and vector_search.py create_chunks  *)
(*   IndexSpec       vector_search.py: the VectorSearchEngine              *)
(*   PipelineSpec    batch_processor.py: the stages of one job (cpu_guard, *)
(*                   _parse_pdf, _build_embeddings, _extract_with_llm,     *)
(*                   _save_result), job after job                          *)
(*   WarmupSpec      warmup_util.py warm_up_model and its caller in        *)
(*                   warmup_daemon.py                                      *)
(*   RaceSpec        vector_search.py: search concurrent with build_index  *)
(*                   and clear_index, one field access at a time           *)
(*                                                                         *)
(* Threads of the batch processor:                                         *)
(*   - the client calling create_batch (one call at a time),               *)
(*   - one background thread per batch running _process_batch,             *)
(*   - one pool thread per job running _process_single_job.                *)
(* Every action of it is one step of one of these threads; the steps are   *)
(* cut where a thread reads or writes state that another thread (or a      *)
(* get_batch_status caller, who receives the live BatchStatus object) can  *)
(* see.                                                                    *)
(***************************************************************************)
EXTENDS Integers, Sequences, FiniteSets, TLC

\* ------------------------------------------------------------- bounds
\* Number of create_batch calls in one run.
MaxBatches == 2
\* Number of files in one create_batch call.
MaxFiles == 3
\* Number of jobs (files) over all batches of one run.
MaxJobs == 3
\* os.cpu_count() ranges over 1..MaxCores.
MaxCores == 2
\* Number of prompts in one generate_batch call.
MaxPrompts == 3
\* Length of a text handed to a chunking function.
MaxTextLen == 6
\* The chunk sizes tried range over 1..MaxChunkSize.
MaxChunkSize == 4
\* The overlaps tried range over 0..MaxOverlap.
MaxOverlap == 2
\* Number of sentences of a text handed to build_index.
MaxSentences == 5
\* top_k of a search ranges over 0..MaxTopK.
MaxTopK == 3
\* Number of jobs that go through the pipeline in one run.
MaxPipelineJobs == 2
\* The retries argument of a direct warm_up_model call ranges over 0..MaxRetries.
MaxRetries == 3
\* Number of build_index / clear_index calls made while searches run.
MaxWrites == 2
\* The top_k of those searches ranges over 1..MaxRaceTopK.
MaxRaceTopK == 2
\* The chunk size and the overlap build_index works with: create_chunks'
\* defaults (1500 and 200 characters), scaled to the texts of the model.
DefaultChunkSize == 8
DefaultOverlap == 2

\* ---------------------------------------------------------- constants
None == "None"

\* The uploaded files a caller may submit: (filename, size in KB).
Files ==
    { [filename |-> "a.pdf", size |-> 1],
      [filename |-> "b.pdf", size |-> 50],
      [filename |-> "a.pdf", size |-> 10] }

Range(s) == { s[i] : i \in 1 .. Len(s) }

\* The lists of at most n distinct elements of S: the uploads of one request.
RECURSIVE SeqsUpTo(_, _)
SeqsUpTo(S, n) ==
    IF n = 0 THEN { <<>> }
    ELSE LET shorter == SeqsUpTo(S, n - 1)
         IN  shorter \cup { Append(s, x) : s \in { t \in shorter : Len(t) = n - 1 },
                                            x \in S }

Distinct(s) == \A p, q \in 1 .. Len(s) : p # q => s[p] # s[q]

Uploads == { s \in SeqsUpTo(Files, MaxFiles) : Distinct(s) }

Min(a, b) == IF a < b THEN a ELSE b
Max(a, b) == IF a > b THEN a ELSE b

\* ------------------------------------------------------------- state
VARIABLES
    cpu_cores,      \* ConcurrencyManager.cpu_cores
    llm_semaphore,  \* permits left in ConcurrencyManager.llm_semaphore
    batches,        \* BatchProcessor.batches: batch id -> BatchStatus
    job,            \* the JobStatus objects, by job id
    uploads,        \* size of the file saved for each job under uploads/
    caller,         \* the create_batch call in progress: its batch id and files
    batch_pc,       \* per batch: where the thread running _process_batch is
    future_to_job,  \* per batch: the jobs submitted to the pool, in submit order
    current,        \* per batch: the job whose future the collect loop holds
    worker,         \* per job: stage of its work item (idle .. finished, yielded)
    future          \* per job: outcome of its future

\* The generation client (src/ai_service/app.py): one generate() call made by
\* one route of the service.
VARIABLES
    gen_pc,         \* where the generate() call is: idle, post, returned, raised, responded
    gen_call,       \* the route that calls generate() and the model it asks for
    retry_total,    \* retries the session's Retry object still allows (Retry.total)
    requests,       \* the requests the backend received: model addressed, outcome
    gen_result,     \* what generate() handed to its caller
    response        \* the HTTP response of the route

batchVars == << cpu_cores, llm_semaphore, batches, job, uploads, caller,
                batch_pc, future_to_job, current, worker, future >>

clientVars == << gen_pc, gen_call, retry_total, requests, gen_result, response >>

\* One generate_batch() call (src/ai_service/app.py).
VARIABLES
    gb_pc,          \* idle, collecting (the as_completed loop), returned
    gb_prompts,     \* the prompts argument
    gb_task,        \* per index: queued, running, done, collected
    gb_future,      \* per index: what generate() did and what process_chunk returned
    gb_results,     \* the results list
    gb_order        \* the indexes in the order as_completed handed them over

gatherVars == << gb_pc, gb_prompts, gb_task, gb_future, gb_results, gb_order >>

\* One call of a chunking function (app.py chunk_text, vector_search.py
\* create_chunks).
VARIABLES
    ch_text,        \* the text argument
    ch_size,        \* max_chunk_size / chunk_size
    ch_overlap,     \* overlap (create_chunks)
    ch_out          \* the function called and the chunks it returned

chunkVars == << ch_text, ch_size, ch_overlap, ch_out >>

\* The one VectorSearchEngine of the process (vector_search.py) and the
\* request it is serving.
VARIABLES
    ve_vectorizer,      \* self.vectorizer: None, created, or fitted with its vocabulary
    ve_index,           \* self.index: None, or the vectors added to it
    ve_chunks,          \* self.chunks
    ve_chunk_metadata,  \* self.chunk_metadata
    ve_call,            \* the call being answered and what it returns
    ve_history,         \* new, built (build_index returned True), cleared
    ve_source           \* the text of the last build_index that returned True

indexVars == << ve_vectorizer, ve_index, ve_chunks, ve_chunk_metadata, ve_call,
                ve_history, ve_source >>

\* The pipeline of one job (batch_processor.py _process_single_job with
\* cpu_guard, _parse_pdf, _build_embeddings, _extract_with_llm, _save_result),
\* for the jobs of a run one after the other.
VARIABLES
    pl_pc,          \* where the pipeline of the current job is
    pl_job,         \* the current job: its file and what the stages produced
    pl_results_dir, \* the files that exist in results_dir
    pl_finished     \* the jobs that went through the pipeline, oldest first

pipelineVars == << pl_pc, pl_job, pl_results_dir, pl_finished >>

\* One warm-up of the model (warmup_util.py warm_up_model), called directly or
\* by the warm-up daemon (warmup_daemon.py perform_warmup).
VARIABLES
    wu_pc,          \* idle, loop (top of the for loop), after (an attempt failed), returned
    wu_caller,      \* who called: perform_warmup, or a direct caller
    wu_retries,     \* the retries argument
    wu_attempt,     \* the loop variable attempt
    wu_log,         \* the requests sent (with their outcome) and the sleeps, in order
    wu_result       \* what warm_up_model returned

warmupVars == << wu_pc, wu_caller, wu_retries, wu_attempt, wu_log, wu_result >>

\* The VectorSearchEngine under concurrent requests (the Flask server runs
\* each request in a thread of its own): one thread that builds and clears,
\* one that searches, taking turns between the reads and writes of the fields.
VARIABLES
    rc_vectorizer,      \* self.vectorizer, with the build that created it
    rc_index,           \* self.index, with the build that created it
    rc_chunks,          \* self.chunks, with the build that stored them
    rc_chunk_metadata,  \* self.chunk_metadata, with the build that stored it
    rc_writer,          \* the build_index / clear_index call in progress
    rc_search           \* the search call in progress

raceVars == << rc_vectorizer, rc_index, rc_chunks, rc_chunk_metadata,
               rc_writer, rc_search >>

vars == << batchVars, clientVars, gatherVars, chunkVars, indexVars,
          pipelineVars, warmupVars, raceVars >>

\* What the steps of one component leave alone: the other components.
outsideBatch == << clientVars, gatherVars, chunkVars, indexVars,
                   pipelineVars, warmupVars, raceVars >>

outsideClient == << batchVars, gatherVars, chunkVars, indexVars,
                    pipelineVars, warmupVars, raceVars >>

outsideGather == << batchVars, clientVars, chunkVars, indexVars,
                    pipelineVars, warmupVars, raceVars >>

outsideChunk == << batchVars, clientVars, gatherVars, indexVars,
                   pipelineVars, warmupVars, raceVars >>

outsideIndex == << batchVars, clientVars, gatherVars, chunkVars,
                   pipelineVars, warmupVars, raceVars >>

outsidePipeline == << batchVars, clientVars, gatherVars, chunkVars,
                      indexVars, warmupVars, raceVars >>

outsideWarmup == << batchVars, clientVars, gatherVars, chunkVars,
                    indexVars, pipelineVars, raceVars >>

outsideRace == << batchVars, clientVars, gatherVars, chunkVars,
                  indexVars, pipelineVars, warmupVars >>

BatchIds == 1 .. MaxBatches

\* ----------------------------------------------- ConcurrencyManager
max_workers(cores) == Max(1, cores \div 2)

llm_concurrency(cores) == Min(5, cores)

\* ------------------------------------------------------------ helpers
\* A future that holds neither a result nor an exception yet.
Pending ==
    [ ok |-> FALSE, result_path |-> None, doc_type |-> None, exception |-> None ]

\* _save_result: results/<stem of the filename>.json.
ResultPath(filename) ==
    CASE filename = "a.pdf" -> "results/a.json"
      [] filename = "b.pdf" -> "results/b.json"
      [] filename = "embeddings_d41d8cd98f00b204e9800998ecf8427e.pdf"
             -> "results/embeddings_d41d8cd98f00b204e9800998ecf8427e.json"

FilePath(job_id, filename) == << "uploads", job_id, filename >>

NewJob(job_id, file) ==
    [ filename      |-> file.filename,
      status        |-> "queued",
      file_path     |-> FilePath(job_id, file.filename),
      result_path   |-> None,
      error_message |-> None,
      doc_type      |-> None ]

\* list.sort(key=getsize): a stable ascending sort (insertion of each element
\* after the elements that are not larger).
RECURSIVE InsertBySize(_, _, _)
InsertBySize(sorted, j, size) ==
    IF sorted = <<>> THEN << j >>
    ELSE IF size[Head(sorted)] <= size[j]
         THEN << Head(sorted) >> \o InsertBySize(Tail(sorted), j, size)
         ELSE << j >> \o sorted

\* Mutant of SortBySize: the jobs keep their upload order.
UploadOrder(jobs, size) == jobs

RECURSIVE SortBySize(_, _)
SortBySize(jobs, size) ==
    IF jobs = <<>> THEN <<>>
    ELSE InsertBySize(SortBySize(SubSeq(jobs, 1, Len(jobs) - 1), size),
                      jobs[Len(jobs)], size)

JobsOf(b) == Range(batches[b].jobs)

\* No create_batch call is in progress.
NoCall == [ batch_id |-> 0, files |-> << >> ]

\* -------------------------------------------------------------- Init
BatchInit ==
    /\ cpu_cores \in 1 .. MaxCores
    /\ llm_semaphore = llm_concurrency(cpu_cores)
    /\ batches = << >>
    /\ job = << >>
    /\ uploads = << >>
    /\ caller = NoCall
    /\ batch_pc = [ b \in BatchIds |-> "none" ]
    /\ future_to_job = [ b \in BatchIds |-> << >> ]
    /\ current = [ b \in BatchIds |-> 0 ]
    /\ worker = << >>
    /\ future = << >>

\* ------------------------------------------------- create_batch caller
\* Lines 82-115: one job per file, each saved under uploads/<job id>_<name>;
\* the batch is put in self.batches and _process_batch_async starts the
\* daemon thread that runs _process_batch.
CreateBatch(b, files) ==
    LET first == Len(job)
        ids   == [ i \in 1 .. Len(files) |-> first + i ]
    IN  /\ caller = NoCall
        /\ b = Len(batches) + 1
        /\ first + Len(files) <= MaxJobs
        /\ job' = [ j \in 1 .. first + Len(files) |->
                      IF j <= first THEN job[j] ELSE NewJob(j, files[j - first]) ]
        /\ uploads' = [ j \in 1 .. first + Len(files) |->
                          IF j <= first THEN uploads[j] ELSE files[j - first].size ]
        /\ worker' = [ j \in 1 .. first + Len(files) |->
                         IF j <= first THEN worker[j] ELSE "idle" ]
        /\ future' = [ j \in 1 .. first + Len(files) |->
                         IF j <= first THEN future[j] ELSE Pending ]
        /\ batches' = Append(batches,
                             [ jobs |-> ids, completed_count |-> 0, error_count |-> 0 ])
        /\ caller' = [ batch_id |-> b, files |-> files ]
        /\ batch_pc' = [ batch_pc EXCEPT ![b] = "sort" ]
        /\ UNCHANGED << outsideBatch, cpu_cores, llm_semaphore, future_to_job, current >>

\* Mutant of ReturnBatchId: create_batch runs _process_batch itself and
\* returns when it is over.
ReturnAfterProcessing(b) ==
    /\ caller.batch_id = b
    /\ batch_pc[b] \in { "done", "crashed" }
    /\ caller' = NoCall
    /\ UNCHANGED << outsideBatch, cpu_cores, llm_semaphore, batches, job, uploads, batch_pc,
                    future_to_job, current, worker, future >>

\* Line 117: create_batch returns the batch id.
ReturnBatchId(b) ==
    /\ caller.batch_id = b
    /\ caller' = NoCall
    /\ UNCHANGED << outsideBatch, cpu_cores, llm_semaphore, batches, job, uploads, batch_pc,
                    future_to_job, current, worker, future >>

\* ------------------------------------------- _process_batch (batch thread)
\* Lines 134-142: the jobs are sorted by file size; the pool is created with
\* max_workers = len(batch.jobs), which raises ValueError for an empty batch
\* (caught and logged by the thread's wrapper, lines 124-127).
SortJobs(b) ==
    /\ batch_pc[b] = "sort"
    /\ batches' = [ batches EXCEPT ![b].jobs = SortBySize(@, uploads) ]
    /\ batch_pc' = [ batch_pc EXCEPT
                       ![b] = IF Len(batches[b].jobs) = 0 THEN "crashed" ELSE "submit" ]
    /\ UNCHANGED << outsideBatch, cpu_cores, llm_semaphore, job, uploads, caller,
                    future_to_job, current, worker, future >>

\* Lines 144-147: executor.submit for the next job of batch.jobs.
SubmitJob(b) ==
    LET n == Len(future_to_job[b]) + 1
        j == batches[b].jobs[n]
    IN  /\ batch_pc[b] = "submit"
        /\ future_to_job' = [ future_to_job EXCEPT ![b] = Append(@, j) ]
        /\ worker' = [ worker EXCEPT ![j] = "pending" ]
        /\ batch_pc' = [ batch_pc EXCEPT
                           ![b] = IF n = Len(batches[b].jobs) THEN "collect" ELSE "submit" ]
        /\ UNCHANGED << outsideBatch, cpu_cores, llm_semaphore, batches, job, uploads,
                        caller, current, future >>

\* Lines 150-154: as_completed yields a finished future, future.result()
\* returns, job.status = "done".
CollectDone(b, j) ==
    /\ batch_pc[b] = "collect"
    /\ j \in Range(future_to_job[b])
    /\ worker[j] = "finished"
    /\ future[j].ok
    /\ worker' = [ worker EXCEPT ![j] = "yielded" ]
    /\ current' = [ current EXCEPT ![b] = j ]
    /\ job' = [ job EXCEPT ![j].status = "done" ]
    /\ batch_pc' = [ batch_pc EXCEPT ![b] = "set_result" ]
    /\ UNCHANGED << outsideBatch, cpu_cores, llm_semaphore, batches, uploads, caller,
                    future_to_job, future >>

\* Lines 155-156: job.result_path and job.doc_type are taken from the result.
SetResult(b) ==
    /\ batch_pc[b] = "set_result"
    /\ job' = [ job EXCEPT ![current[b]].result_path = future[current[b]].result_path,
                           ![current[b]].doc_type = future[current[b]].doc_type ]
    /\ batch_pc' = [ batch_pc EXCEPT ![b] = "inc_completed" ]
    /\ UNCHANGED << outsideBatch, cpu_cores, llm_semaphore, batches, uploads, caller,
                    future_to_job, current, worker, future >>

\* Line 157: batch.completed_count += 1.
IncCompleted(b) ==
    /\ batch_pc[b] = "inc_completed"
    /\ batches' = [ batches EXCEPT ![b].completed_count = @ + 1 ]
    /\ current' = [ current EXCEPT ![b] = 0 ]
    /\ batch_pc' = [ batch_pc EXCEPT ![b] = "collect" ]
    /\ UNCHANGED << outsideBatch, cpu_cores, llm_semaphore, job, uploads, caller,
                    future_to_job, worker, future >>

\* Mutant of CollectError: the exception of future.result() is not caught; it
\* leaves the collect loop and ends _process_batch.
CollectErrorEndsBatch(b, j) ==
    /\ batch_pc[b] = "collect"
    /\ j \in Range(future_to_job[b])
    /\ worker[j] = "finished"
    /\ ~ future[j].ok
    /\ worker' = [ worker EXCEPT ![j] = "yielded" ]
    /\ job' = [ job EXCEPT ![j].status = "error" ]
    /\ batch_pc' = [ batch_pc EXCEPT ![b] = "crashed" ]
    /\ UNCHANGED << outsideBatch, cpu_cores, llm_semaphore, batches, uploads, caller,
                    future_to_job, current, future >>

\* Lines 150-153, 159-160: as_completed yields a finished future,
\* future.result() raises, job.status = "error".
CollectError(b, j) ==
    /\ batch_pc[b] = "collect"
    /\ j \in Range(future_to_job[b])
    /\ worker[j] = "finished"
    /\ ~ future[j].ok
    /\ worker' = [ worker EXCEPT ![j] = "yielded" ]
    /\ current' = [ current EXCEPT ![b] = j ]
    /\ job' = [ job EXCEPT ![j].status = "error" ]
    /\ batch_pc' = [ batch_pc EXCEPT ![b] = "set_error_message" ]
    /\ UNCHANGED << outsideBatch, cpu_cores, llm_semaphore, batches, uploads, caller,
                    future_to_job, future >>

\* Line 161: job.error_message = str(e).
SetErrorMessage(b) ==
    /\ batch_pc[b] = "set_error_message"
    /\ job' = [ job EXCEPT ![current[b]].error_message = future[current[b]].exception ]
    /\ batch_pc' = [ batch_pc EXCEPT ![b] = "inc_error" ]
    /\ UNCHANGED << outsideBatch, cpu_cores, llm_semaphore, batches, uploads, caller,
                    future_to_job, current, worker, future >>

\* Mutant of IncError: the increment of line 162 is left out.
IncErrorSkipped(b) ==
    /\ batch_pc[b] = "inc_error"
    /\ current' = [ current EXCEPT ![b] = 0 ]
    /\ batch_pc' = [ batch_pc EXCEPT ![b] = "collect" ]
    /\ UNCHANGED << outsideBatch, cpu_cores, llm_semaphore, batches, job, uploads, caller,
                    future_to_job, worker, future >>

\* Line 162: batch.error_count += 1.
IncError(b) ==
    /\ batch_pc[b] = "inc_error"
    /\ batches' = [ batches EXCEPT ![b].error_count = @ + 1 ]
    /\ current' = [ current EXCEPT ![b] = 0 ]
    /\ batch_pc' = [ batch_pc EXCEPT ![b] = "collect" ]
    /\ UNCHANGED << outsideBatch, cpu_cores, llm_semaphore, job, uploads, caller,
                    future_to_job, worker, future >>

\* as_completed is exhausted, the pool is shut down, _process_batch returns.
FinishBatch(b) ==
    /\ batch_pc[b] = "collect"
    /\ \A j \in Range(future_to_job[b]) : worker[j] = "yielded"
    /\ batch_pc' = [ batch_pc EXCEPT ![b] = "done" ]
    /\ UNCHANGED << outsideBatch, cpu_cores, llm_semaphore, batches, job, uploads, caller,
                    future_to_job, current, worker, future >>

\* --------------------------------------- _process_single_job (pool thread)
FutureResult(filename) ==
    [ ok |-> TRUE, result_path |-> ResultPath(filename),
      doc_type |-> "mock_document", exception |-> None ]

\* The exception a failed future holds; str(e) is its opaque description.
FutureException ==
    [ ok |-> FALSE, result_path |-> None, doc_type |-> None, exception |-> "str(e)" ]

\* Mutant of StartJob: the status assignment of line 169 is left out.
StartJobKeepsQueued(j) ==
    /\ worker[j] = "pending"
    /\ worker' = [ worker EXCEPT ![j] = "cpu" ]
    /\ UNCHANGED << outsideBatch, cpu_cores, llm_semaphore, batches, job, uploads, caller,
                    batch_pc, future_to_job, current, future >>

\* Line 169: a pool thread takes the work item and sets job.status = "running".
StartJob(j) ==
    /\ worker[j] = "pending"
    /\ job' = [ job EXCEPT ![j].status = "running" ]
    /\ worker' = [ worker EXCEPT ![j] = "cpu" ]
    /\ UNCHANGED << outsideBatch, cpu_cores, llm_semaphore, batches, uploads, caller,
                    batch_pc, future_to_job, current, future >>

\* Lines 172-178: cpu_guard, _parse_pdf, _build_embeddings (none of them
\* raises: each catches its own errors or computes a placeholder).
CpuStages(j) ==
    /\ worker[j] = "cpu"
    /\ worker' = [ worker EXCEPT ![j] = "wait" ]
    /\ UNCHANGED << outsideBatch, cpu_cores, llm_semaphore, batches, job, uploads, caller,
                    batch_pc, future_to_job, current, future >>

\* Mutant of LlmAcquire: the permit is taken without waiting for one to be free.
LlmAcquireNoWait(j) ==
    /\ worker[j] = "wait"
    /\ llm_semaphore' = llm_semaphore - 1
    /\ worker' = [ worker EXCEPT ![j] = "llm" ]
    /\ UNCHANGED << outsideBatch, cpu_cores, batches, job, uploads, caller, batch_pc,
                    future_to_job, current, future >>

\* Line 238: `with llm_semaphore` acquires one permit, blocking while none is left.
LlmAcquire(j) ==
    /\ worker[j] = "wait"
    /\ llm_semaphore > 0
    /\ llm_semaphore' = llm_semaphore - 1
    /\ worker' = [ worker EXCEPT ![j] = "llm" ]
    /\ UNCHANGED << outsideBatch, cpu_cores, batches, job, uploads, caller, batch_pc,
                    future_to_job, current, future >>

\* Mutant of LlmReturn: the permit is not given back after the call.
LlmReturnKeepsPermit(j) ==
    /\ worker[j] = "llm"
    /\ worker' = [ worker EXCEPT ![j] = "save" ]
    /\ UNCHANGED << outsideBatch, cpu_cores, llm_semaphore, batches, job, uploads, caller,
                    batch_pc, future_to_job, current, future >>

\* Lines 239-268: the body of the with block returns the extraction result;
\* leaving the block releases the permit.
LlmReturn(j) ==
    /\ worker[j] = "llm"
    /\ llm_semaphore' = llm_semaphore + 1
    /\ worker' = [ worker EXCEPT ![j] = "save" ]
    /\ UNCHANGED << outsideBatch, cpu_cores, batches, job, uploads, caller, batch_pc,
                    future_to_job, current, future >>

\* Mutant of LlmRaise: the permit is released only on the success path.
LlmRaiseKeepsPermit(j) ==
    /\ worker[j] = "llm"
    /\ worker' = [ worker EXCEPT ![j] = "finished" ]
    /\ future' = [ future EXCEPT ![j] = FutureException ]
    /\ UNCHANGED << outsideBatch, cpu_cores, llm_semaphore, batches, job, uploads, caller,
                    batch_pc, future_to_job, current >>

\* Lines 238-268, 192-194: the body of the with block raises; leaving the block
\* releases the permit, the exception is re-raised and ends the future.
LlmRaise(j) ==
    /\ worker[j] = "llm"
    /\ llm_semaphore' = llm_semaphore + 1
    /\ worker' = [ worker EXCEPT ![j] = "finished" ]
    /\ future' = [ future EXCEPT ![j] = FutureException ]
    /\ UNCHANGED << outsideBatch, cpu_cores, batches, job, uploads, caller, batch_pc,
                    future_to_job, current >>

\* Lines 184-190: _save_result writes results/<stem>.json and the job returns
\* its result.
SaveResult(j) ==
    /\ worker[j] = "save"
    /\ worker' = [ worker EXCEPT ![j] = "finished" ]
    /\ future' = [ future EXCEPT ![j] = FutureResult(job[j].filename) ]
    /\ UNCHANGED << outsideBatch, cpu_cores, llm_semaphore, batches, job, uploads, caller,
                    batch_pc, future_to_job, current >>

\* Lines 184, 192-194, 277: writing the result file raises (OSError); the
\* exception is re-raised and ends the future.
SaveRaise(j) ==
    /\ worker[j] = "save"
    /\ worker' = [ worker EXCEPT ![j] = "finished" ]
    /\ future' = [ future EXCEPT ![j] = FutureException ]
    /\ UNCHANGED << outsideBatch, cpu_cores, llm_semaphore, batches, job, uploads, caller,
                    batch_pc, future_to_job, current >>

\* ------------------------------------------------------ specification
Terminal(j) == j \in DOMAIN job /\ job[j].status \in { "done", "error" }

Caller(b) ==
    \/ \E files \in Uploads : CreateBatch(b, files)
    \/ ReturnBatchId(b)

BatchThread(b) ==
    \/ SortJobs(b)
    \/ SubmitJob(b)
    \/ \E j \in DOMAIN job : CollectDone(b, j)
    \/ SetResult(b)
    \/ IncCompleted(b)
    \/ \E j \in DOMAIN job : CollectError(b, j)
    \/ SetErrorMessage(b)
    \/ IncError(b)
    \/ FinishBatch(b)

PoolThread(j) ==
    \/ StartJob(j)
    \/ CpuStages(j)
    \/ LlmAcquire(j)
    \/ LlmReturn(j)
    \/ LlmRaise(j)
    \/ SaveResult(j)
    \/ SaveRaise(j)

BatchNext ==
    \/ \E b \in BatchIds : Caller(b)
    \/ \E b \in BatchIds : BatchThread(b)
    \/ \E j \in DOMAIN job : PoolThread(j)


\* ------------------------------------------------------------ claims
CountStatus(b, st) ==
    Cardinality({ i \in 1 .. Len(batches[b].jobs) : job[batches[b].jobs[i]].status = st })

Finished(b) == batch_pc[b] \in { "done", "crashed" }

InLlm == { j \in DOMAIN job : worker[j] = "llm" }

InCpu == { j \in DOMAIN job : worker[j] = "cpu" }

LegalTransitions ==
    { << "queued", "running" >>, << "running", "done" >>, << "running", "error" >> }

\* C1: every job is created queued, and its status changes only along
\* queued -> running -> done or queued -> running -> error; a terminal status
\* never changes and no job goes from queued to a terminal status.
C1_StatusTransitions ==
    [][ \A j \in DOMAIN job' :
          IF j \in DOMAIN job
          THEN \/ job'[j].status = job[j].status
               \/ << job[j].status, job'[j].status >> \in LegalTransitions
          ELSE job'[j].status = "queued" ]_vars

\* Two batches are being processed; one job has ended done and another error.
C1_Witness ==
    /\ Len(batches) = 2
    /\ \A b \in DOMAIN batches : ~ Finished(b)
    /\ \E j, k \in DOMAIN job : job[j].status = "done" /\ job[k].status = "error"

\* C2: completed_count + error_count <= len(jobs) in every state, and once the
\* processing of a batch has finished the two counters are the numbers of
\* done and of error jobs and add up to len(jobs).
C2_BatchCounts ==
    \A b \in DOMAIN batches :
        /\ batches[b].completed_count + batches[b].error_count <= Len(batches[b].jobs)
        /\ Finished(b) =>
             /\ batches[b].completed_count = CountStatus(b, "done")
             /\ batches[b].error_count = CountStatus(b, "error")
             /\ batches[b].completed_count + batches[b].error_count
                  = Len(batches[b].jobs)

\* A batch has finished with at least one done and one error job.
C2_Witness ==
    \E b \in DOMAIN batches :
        /\ batch_pc[b] = "done"
        /\ batches[b].completed_count >= 1
        /\ batches[b].error_count >= 1

\* C3: in every state a get_batch_status caller can observe, completed_count is
\* the number of done jobs and error_count the number of error jobs of the batch.
C3_CountersMatchStatuses ==
    \A b \in DOMAIN batches :
        /\ batches[b].completed_count = CountStatus(b, "done")
        /\ batches[b].error_count = CountStatus(b, "error")

\* C4: under fair scheduling every job of every accepted batch eventually is
\* done or error (terminal statuses are final, so: again and again every job
\* created so far is terminal).
C4_AllJobsTerminate == []<>(\A j \in DOMAIN job : Terminal(j))

\* Two batches, one of them with more jobs than there are LLM permits, and every
\* job has reached a terminal status.
C4_Witness ==
    /\ Len(batches) = 2
    /\ \E b \in DOMAIN batches : Len(batches[b].jobs) > llm_concurrency(cpu_cores)
    /\ \A b \in DOMAIN batches : Len(batches[b].jobs) > 0
    /\ \A j \in DOMAIN job : Terminal(j)

\* C5: at every moment at most min(5, cpu_cores) jobs, over all batches, are in
\* the generation stage, each of them holding one of the permits taken from the
\* semaphore (which never hands out more permits than it has).
C5_LlmBudget ==
    /\ llm_semaphore >= 0
    /\ Cardinality(InLlm) <= Min(5, cpu_cores) - llm_semaphore
    /\ Cardinality(InLlm) <= Min(5, cpu_cores)

\* Jobs of two batches fill the budget while another job waits for a permit.
C5_Witness ==
    /\ Cardinality(InLlm) = Min(5, cpu_cores)
    /\ \E j, k \in InLlm : \E b, c \in DOMAIN batches :
           b # c /\ j \in JobsOf(b) /\ k \in JobsOf(c)
    /\ \E j \in DOMAIN job : worker[j] = "wait"

\* C6: free permits + jobs in the generation stage = min(5, cpu_cores) in
\* every state, so every permit is back when no job is in that stage.
C6_PermitsConserved == llm_semaphore + Cardinality(InLlm) = Min(5, cpu_cores)

\* Jobs have failed and succeeded, no job is in the generation stage and every
\* permit is free.
C6_Witness ==
    /\ InLlm = { }
    /\ llm_semaphore = Min(5, cpu_cores)
    /\ \E j, k \in DOMAIN job :
           /\ worker[j] = "finished" /\ ~ future[j].ok
           /\ worker[k] = "finished" /\ future[k].ok

\* C7: at every moment at most max(1, cpu_cores / 2) jobs are in their
\* CPU-bound stages.
C7_WorkerBudget == Cardinality(InCpu) <= Max(1, cpu_cores \div 2)

\* C8: the jobs of a batch are submitted to the pool in ascending file-size
\* order: a job is submitted only after every smaller job of its batch.
C8_DispatchBySize ==
    \A b \in DOMAIN batches :
        LET d == future_to_job[b]
        IN  /\ \A p, q \in 1 .. Len(d) : p < q => uploads[d[p]] <= uploads[d[q]]
            /\ \A q \in 1 .. Len(d) : \A a \in JobsOf(b) :
                   uploads[a] < uploads[d[q]] => \E p \in 1 .. q - 1 : d[p] = a

\* Files of 1, 50 and 10 KB, uploaded in that order, were submitted as 1, 10,
\* 50, and the 50 KB job is done while the 1 KB job is not yet.
C8_Witness ==
    \E b \in DOMAIN batches :
        LET d == future_to_job[b]
        IN  /\ Len(d) = 3
            /\ d[1] < d[3] /\ d[3] < d[2]
            /\ << uploads[d[1]], uploads[d[2]], uploads[d[3]] >> = << 1, 10, 50 >>
            /\ job[d[3]].status = "done"
            /\ ~ Terminal(d[1])

\* C9: while create_batch is at its return statement the batch is registered
\* with one job per submitted file, and the return waits for nothing (it is
\* enabled whatever the state of the jobs).
C9_ReturnsAtOnce ==
    caller # NoCall =>
        LET b == caller.batch_id
        IN  /\ b \in DOMAIN batches
            /\ Len(batches[b].jobs) = Len(caller.files)
            /\ \A i \in 1 .. Len(caller.files) :
                   \E j \in JobsOf(b) :
                       /\ job[j].filename = caller.files[i].filename
                       /\ uploads[j] = caller.files[i].size
            /\ ENABLED ReturnBatchId(b)

\* create_batch is about to return a batch of two or more files, all of whose
\* jobs are still queued.
C9_Witness ==
    /\ caller # NoCall
    /\ Len(caller.files) >= 2
    /\ \A j \in JobsOf(caller.batch_id) : job[j].status = "queued"

\* C10: a failure in one job's pipeline sets exactly that job to error, with
\* error_message set when it is counted, and adds exactly one to error_count;
\* no sibling's status, result or counting changes with it, the batch goes on,
\* and every sibling still reaches its own terminal status.
C10_OnlyFailedJobs ==
    \A j \in DOMAIN job :
        /\ job[j].status = "error" => worker[j] = "yielded" /\ ~ future[j].ok
        /\ job[j].status = "done" => worker[j] = "yielded" /\ future[j].ok

C10_ErrorStep ==
    \A b \in DOMAIN batches :
        /\ \A j \in JobsOf(b) :
               job[j].status # "error" /\ job'[j].status = "error" =>
                   /\ \A k \in DOMAIN job \ { j } : job'[k] = job[k]
                   /\ batches' = batches
                   /\ batch_pc'[b] \notin { "done", "crashed" }
        /\ batches'[b].error_count # batches[b].error_count =>
               /\ batches'[b] = [ batches[b] EXCEPT !.error_count = @ + 1 ]
               /\ \A c \in DOMAIN batches \ { b } : batches'[c] = batches[c]
               /\ job' = job
               /\ job[current[b]].status = "error"
               /\ job[current[b]].error_message # None

C10_SiblingsEnd ==
    \A b \in DOMAIN batches :
        \A j, k \in JobsOf(b) : job[j].status = "error" => Terminal(k)

C10_FailureIsolated ==
    /\ []C10_OnlyFailedJobs
    /\ [][C10_ErrorStep]_vars
    /\ []<>C10_SiblingsEnd

\* A batch has finished with one job in error, its message set and counted
\* once, and a sibling done with its result.
C10_Witness ==
    \E b \in DOMAIN batches :
        /\ batch_pc[b] = "done"
        /\ batches[b].error_count = 1
        /\ \E j, k \in JobsOf(b) :
               /\ job[j].status = "error" /\ job[j].error_message # None
               /\ job[k].status = "done" /\ job[k].result_path # None

\* C25: two distinct jobs that are done and have their result_path never
\* name the same result file, and two distinct jobs never have the same
\* uploaded-file path.
C25_OneFilePerJob ==
    \A j \in DOMAIN job, k \in DOMAIN job :
        j # k =>
            /\ job[j].file_path # job[k].file_path
            /\ ( /\ job[j].status = "done" /\ job[j].result_path # None
                 /\ job[k].status = "done" /\ job[k].result_path # None )
               => job[j].result_path # job[k].result_path

\* The half of C25 about uploaded files, which the job id in the name secures.
C25_UploadPathsDistinct ==
    \A j \in DOMAIN job, k \in DOMAIN job :
        j # k => job[j].file_path # job[k].file_path

\* C22: from the state in which a job's status is done or error on, no field
\* of the job changes any more.
C22_TerminalImmutable ==
    [][ \A j \in DOMAIN job :
          job[j].status \in { "done", "error" } => job'[j] = job[j] ]_vars

\* ======================================================================
\* Generation client: OllamaClient.generate and the routes that call it
\* (src/ai_service/app.py).
\* ======================================================================
\* Texts are sequences of characters (a whole word may stand for one character).
RECURSIVE LStrip(_)
LStrip(s) == IF s # << >> /\ Head(s) = " " THEN LStrip(Tail(s)) ELSE s

RECURSIVE RStrip(_)
RStrip(s) ==
    IF s # << >> /\ s[Len(s)] = " " THEN RStrip(SubSeq(s, 1, Len(s) - 1)) ELSE s

\* str.strip()
Strip(s) == RStrip(LStrip(s))

\* DEFAULT_MODEL, and a model name the backend does not know.
DEFAULT_MODEL == "mistral:7b-instruct-q4_0"

Models == { DEFAULT_MODEL, "nonexistent-model" }

\* The routes that call generate() once per request.
Sites == { "summarize", "analyze", "extract_universal", "extract_enhanced" }

\* Retry(total=3, status_forcelist=[500, 502, 503, 504]) mounted on the session.
RetryTotal == 3

status_forcelist == { 500, 502, 503, 504 }

\* urllib3's Retry retries a status of the forcelist only for the methods of
\* allowed_methods, which the code leaves at its default (no POST).
allowed_methods == { "HEAD", "GET", "PUT", "DELETE", "OPTIONS", "TRACE" }

is_retry(method, status) ==
    method \in allowed_methods /\ status \in status_forcelist

\* What the backend can do with one request.
TransportErrors == { "connect_error", "read_timeout" }

HttpErrors == { "http_503", "http_404" }

\* Bodies of a 200 answer: a text, a short text, "", blanks, no 'response' key,
\* 'response': null, a JSON value that is no object, a body that is no JSON.
OkBodies == { "ok_answer", "ok_short", "ok_empty", "ok_blank", "ok_missing",
              "ok_null", "ok_not_object", "ok_not_json" }

status_code(outcome) ==
    CASE outcome = "http_503" -> 503
      [] outcome = "http_404" -> 404
      [] outcome \in OkBodies -> 200

\* data.get('response', '') for the bodies that are objects with a string there.
ResponseField(outcome, model) ==
    CASE outcome = "ok_answer"  -> << " ", model, " ", "says", " ", "hi", " " >>
      [] outcome = "ok_short"   -> << "k" >>
      [] outcome = "ok_empty"   -> << >>
      [] outcome = "ok_blank"   -> << " ", " " >>
      [] outcome = "ok_missing" -> << >>

\* What a generate() call hands to its caller.
NotReturned == [ kind |-> "pending", text |-> << >>, exception |-> None ]

ReturnNone == [ kind |-> "None", text |-> << >>, exception |-> None ]

ReturnText(t) == [ kind |-> "text", text |-> t, exception |-> None ]

Raise(e) == [ kind |-> "raised", text |-> << >>, exception |-> e ]

\* Lines 128-137 on a 200 answer. response.json() raises JSONDecodeError on a
\* body that is no JSON: a RequestException (caught, line 142) in requests
\* 2.27 and later, a plain ValueError (not caught) before. data.get on a value
\* that is no object, and .strip() on null, raise AttributeError.
ParseOk(outcome, model) ==
    IF outcome \in { "ok_null", "ok_not_object" } THEN { Raise("AttributeError") }
    ELSE IF outcome = "ok_not_json" THEN { ReturnNone, Raise("ValueError") }
    ELSE LET response_text == Strip(ResponseField(outcome, model))
         IN  { IF response_text = << >> THEN ReturnNone
               ELSE ReturnText(response_text) }

NoCallSite == [ site |-> None, model |-> None ]

NoResponse == [ status |-> 0, text |-> << >>, model_used |-> None, error |-> None ]

ClientIdle ==
    /\ gen_pc = "idle"
    /\ gen_call = NoCallSite
    /\ retry_total = 0
    /\ requests = << >>
    /\ gen_result = NotReturned
    /\ response = NoResponse

Sent(outcome) ==
    Append(requests, [ model |-> gen_call.model, outcome |-> outcome ])

\* A route reaches its ollama.generate(model, prompt, max_tokens) line; the
\* session's adapter starts the request with a fresh Retry(total=3).
CallGenerate(site, model) ==
    /\ gen_pc = "idle"
    /\ gen_pc' = "post"
    /\ gen_call' = [ site |-> site, model |-> model ]
    /\ retry_total' = RetryTotal
    /\ UNCHANGED << outsideClient, requests, gen_result, response >>

\* Line 120, the connection fails: the adapter sends the request again while
\* Retry.total allows it, then raises ConnectionError, which line 142 catches.
ConnectError ==
    /\ gen_pc = "post"
    /\ requests' = Sent("connect_error")
    /\ IF retry_total > 0
       THEN /\ retry_total' = retry_total - 1
            /\ UNCHANGED << gen_pc, gen_result >>
       ELSE /\ gen_pc' = "returned"
            /\ gen_result' = ReturnNone
            /\ UNCHANGED retry_total
    /\ UNCHANGED << outsideClient, gen_call, response >>

\* Line 120, no answer within the timeout: a read error of a POST is not
\* retried, the ReadTimeout is caught at line 142.
ReadTimeout ==
    /\ gen_pc = "post"
    /\ requests' = Sent("read_timeout")
    /\ gen_pc' = "returned"
    /\ gen_result' = ReturnNone
    /\ UNCHANGED << outsideClient, gen_call, retry_total, response >>

\* Lines 128, 138-140: an answer with another status than 200. The request is
\* a POST, so the forcelist does not make the adapter send it again.
HttpError(outcome) ==
    /\ gen_pc = "post"
    /\ ~ is_retry("POST", status_code(outcome))
    /\ status_code(outcome) # 200
    /\ requests' = Sent(outcome)
    /\ gen_pc' = "returned"
    /\ gen_result' = ReturnNone
    /\ UNCHANGED << outsideClient, gen_call, retry_total, response >>

\* Lines 128-137: a 200 answer.
HttpOk(outcome) ==
    /\ gen_pc = "post"
    /\ status_code(outcome) = 200
    /\ requests' = Sent(outcome)
    /\ \E r \in ParseOk(outcome, gen_call.model) :
           /\ gen_result' = r
           /\ gen_pc' = IF r.kind = "raised" THEN "raised" ELSE "returned"
    /\ UNCHANGED << outsideClient, gen_call, retry_total, response >>

ErrorResponse(message) ==
    [ status |-> 500, text |-> << >>, model_used |-> None, error |-> message ]

TextResponse(t, model) ==
    [ status |-> 200, text |-> t, model_used |-> model, error |-> None ]

\* What each route does with the result (lines 592-609, 631-662, 747-765,
\* 892-910): `if not result` is true of None only, generate() returns no "".
RouteResponse(site, result, model) ==
    IF result.kind = "raised"
    THEN ErrorResponse(result.exception)
    ELSE IF result.kind = "text"
    THEN TextResponse(result.text, model)
    ELSE CASE site = "summarize" ->
                  TextResponse(<< "Unable to process document." >>, model)
           [] site = "analyze" ->
                  TextResponse(<< "Unable to analyze document." >>, model)
           [] site = "extract_universal" ->
                  ErrorResponse("Extraction failed - no response from AI model")
           [] site = "extract_enhanced" ->
                  ErrorResponse("Enhanced analysis failed - no response from AI model")

Respond ==
    /\ gen_pc \in { "returned", "raised" }
    /\ response' = RouteResponse(gen_call.site, gen_result, gen_call.model)
    /\ gen_pc' = "responded"
    /\ UNCHANGED << outsideClient, gen_call, retry_total, requests, gen_result >>

ClientNext ==
    \/ \E site \in Sites, model \in Models : CallGenerate(site, model)
    \/ ConnectError
    \/ ReadTimeout
    \/ \E outcome \in HttpErrors : HttpError(outcome)
    \/ \E outcome \in OkBodies : HttpOk(outcome)
    \/ Respond

\* ---------------------------------------------------- claims C11 .. C14
\* The model the specification calls the fallback model; no route asks for it.
FallbackModel == "fallback-model"

CallOver == gen_pc \in { "returned", "raised", "responded" }

Addressed == [ i \in 1 .. Len(requests) |-> requests[i].model ]

EveryRequestFailed ==
    \A i \in 1 .. Len(requests) :
        requests[i].outcome \in TransportErrors \cup HttpErrors

\* C11: when the backend fails every request, a generate() call that is over
\* has sent exactly RetryTotal (3) requests for the model it was asked for and
\* then exactly one request for the fallback model.
C11_RetryCeiling ==
    (CallOver /\ EveryRequestFailed) =>
        Addressed = << gen_call.model, gen_call.model, gen_call.model, FallbackModel >>

\* C12: when every request for the requested model was answered with 503 and
\* every request for the fallback model with a valid 200, the call returns the
\* fallback model's text and the route reports the fallback model as the one
\* that served the request.
C12_FallbackServes ==
    ( /\ gen_pc = "responded"
      /\ \A i \in 1 .. Len(requests) :
             /\ requests[i].model = gen_call.model => requests[i].outcome = "http_503"
             /\ requests[i].model = FallbackModel => requests[i].outcome = "ok_answer" )
    => /\ gen_result = ReturnText(Strip(ResponseField("ok_answer", FallbackModel)))
       /\ response.model_used = FallbackModel

\* The shortest text generate() accepts (line 133: any text that is not empty).
MinAcceptedLength == 1

\* C13: whatever the backend did, generate() does not raise, and what it
\* returns is None or a text of at least the minimum accepted length.
C13_TextOrNone ==
    CallOver =>
        \/ gen_result = ReturnNone
        \/ gen_result.kind = "text" /\ Len(gen_result.text) >= MinAcceptedLength

\* C14: at every route, when generate() returned None the route answers with
\* a text that is not empty, and not with an error.
C14_RoutesSubstitute ==
    (gen_pc = "responded" /\ gen_result = ReturnNone) =>
        response.status = 200 /\ response.text # << >>

\* ======================================================================
\* OllamaClient.generate_batch (src/ai_service/app.py, lines 182-214).
\* ======================================================================
\* OLLAMA_NUM_PARALLEL (its default): the workers of the executor that one
\* generate_batch call creates.
OLLAMA_NUM_PARALLEL == 2

Prompts == { "p", "q" }

PromptLists == SeqsUpTo(Prompts, MaxPrompts)

\* What self.generate(model, prompt, max_tokens) can do (see ParseOk and the
\* steps of generate above): return a text, return None, or raise.
GenerateOutcomes(prompt) ==
    { ReturnText(<< "re:", prompt >>), ReturnNone, Raise("AttributeError") }

\* process_chunk (lines 189-195): an exception of generate() becomes None.
process_chunk(generated) ==
    IF generated.kind = "raised" THEN ReturnNone ELSE generated

NoFuture == [ generated |-> NotReturned, value |-> NotReturned ]

GatherIdle ==
    /\ gb_pc = "idle"
    /\ gb_prompts = << >>
    /\ gb_task = << >>
    /\ gb_future = << >>
    /\ gb_results = << >>
    /\ gb_order = << >>

Indexes == 1 .. Len(gb_prompts)

InFlight == { i \in Indexes : gb_task[i] = "running" }

\* Lines 187, 198-203: results = [None] * len(prompts), the executor is
\* created and every prompt is submitted with its index.
CallGenerateBatch(prompts) ==
    /\ gb_pc = "idle"
    /\ gb_pc' = "collecting"
    /\ gb_prompts' = prompts
    /\ gb_results' = [ i \in 1 .. Len(prompts) |-> ReturnNone ]
    /\ gb_task' = [ i \in 1 .. Len(prompts) |-> "queued" ]
    /\ gb_future' = [ i \in 1 .. Len(prompts) |-> NoFuture ]
    /\ UNCHANGED << outsideGather, gb_order >>

\* A free worker of the executor takes the oldest queued work item and calls
\* generate() (line 192).
StartChunk(i) ==
    /\ gb_pc = "collecting"
    /\ i \in Indexes
    /\ gb_task[i] = "queued"
    /\ \A k \in 1 .. i - 1 : gb_task[k] # "queued"
    /\ Cardinality(InFlight) < OLLAMA_NUM_PARALLEL
    /\ gb_task' = [ gb_task EXCEPT ![i] = "running" ]
    /\ UNCHANGED << outsideGather, gb_pc, gb_prompts, gb_future, gb_results, gb_order >>

\* Lines 191-195: generate() is over, process_chunk returns (index, result).
FinishChunk(i, generated) ==
    /\ i \in Indexes
    /\ gb_task[i] = "running"
    /\ gb_task' = [ gb_task EXCEPT ![i] = "done" ]
    /\ gb_future' = [ gb_future EXCEPT
                        ![i] = [ generated |-> generated,
                                 value |-> process_chunk(generated) ] ]
    /\ UNCHANGED << outsideGather, gb_pc, gb_prompts, gb_results, gb_order >>

\* Mutant of CollectChunk: the results are kept in their order of arrival.
CollectInArrivalOrder(i) ==
    /\ gb_pc = "collecting"
    /\ i \in Indexes
    /\ gb_task[i] = "done"
    /\ gb_results' = [ gb_results EXCEPT ![Len(gb_order) + 1] = gb_future[i].value ]
    /\ gb_task' = [ gb_task EXCEPT ![i] = "collected" ]
    /\ gb_order' = Append(gb_order, i)
    /\ UNCHANGED << outsideGather, gb_pc, gb_prompts, gb_future >>

\* Lines 206-209: as_completed hands over a finished future, in any order;
\* results[index] = result.
CollectChunk(i) ==
    /\ gb_pc = "collecting"
    /\ i \in Indexes
    /\ gb_task[i] = "done"
    /\ gb_results' = [ gb_results EXCEPT ![i] = gb_future[i].value ]
    /\ gb_task' = [ gb_task EXCEPT ![i] = "collected" ]
    /\ gb_order' = Append(gb_order, i)
    /\ UNCHANGED << outsideGather, gb_pc, gb_prompts, gb_future >>

\* Line 214, after as_completed is exhausted and the executor has shut down.
ReturnResults ==
    /\ gb_pc = "collecting"
    /\ \A i \in Indexes : gb_task[i] = "collected"
    /\ gb_pc' = "returned"
    /\ UNCHANGED << outsideGather, gb_prompts, gb_task, gb_future, gb_results, gb_order >>

GatherNext ==
    \/ \E prompts \in PromptLists : CallGenerateBatch(prompts)
    \/ \E i \in Indexes : StartChunk(i)
    \/ \E i \in Indexes :
           \E generated \in GenerateOutcomes(gb_prompts[i]) : FinishChunk(i, generated)
    \/ \E i \in Indexes : CollectChunk(i)
    \/ ReturnResults

\* ---------------------------------------------------- claims C15, C16
\* The outcome of prompts[i]: the text generate() returned for it, or the
\* failure value when generate() returned None or raised.
OutcomeOf(i) ==
    IF gb_future[i].generated.kind = "text" THEN gb_future[i].generated ELSE ReturnNone

\* C15: generate_batch returns a list with one entry per prompt, and entry i
\* is the outcome of prompts[i], in whatever order the calls completed; a
\* failed prompt leaves the other entries alone. Until then every entry is
\* still None or already the outcome of its own prompt.
C15_IndexPreserving ==
    /\ gb_pc \in { "collecting", "returned" } =>
           /\ Len(gb_results) = Len(gb_prompts)
           /\ \A i \in Indexes :
                  \/ gb_results[i] = ReturnNone
                  \/ gb_task[i] = "collected" /\ gb_results[i] = OutcomeOf(i)
    /\ gb_pc = "returned" => \A i \in Indexes : gb_results[i] = OutcomeOf(i)

\* A call has returned whose later prompt completed first, with one prompt
\* failed and another answered.
C15_Witness ==
    /\ gb_pc = "returned"
    /\ \E a, b \in 1 .. Len(gb_order) : a < b /\ gb_order[a] > gb_order[b]
    /\ \E i, k \in Indexes :
           /\ gb_future[i].generated.kind = "raised" /\ gb_results[i] = ReturnNone
           /\ gb_results[k].kind = "text" /\ gb_results[k] = OutcomeOf(k)

\* C16: the generate() calls in flight for generate_batch, together with the
\* batch jobs inside their generation stage, never exceed the LLM budget of
\* the ConcurrencyManager.
C16_SharedLlmBudget ==
    Cardinality(InFlight) + Cardinality(InLlm) <= llm_concurrency(cpu_cores)

\* ======================================================================
\* Chunking: chunk_text (src/ai_service/app.py) and
\* VectorSearchEngine.create_chunks (src/ai_service/vector_search.py).
\* ======================================================================
\* The characters of a text: a letter, the full stop and the blank.
Chars == { "a", ".", " " }

RECURSIVE TextsOfLen(_)
TextsOfLen(n) ==
    IF n = 0 THEN { << >> }
    ELSE { Append(t, c) : t \in TextsOfLen(n - 1), c \in Chars }

Texts == UNION { TextsOfLen(n) : n \in 0 .. MaxTextLen }

\* text.split('. '): the pieces between the occurrences of ". ", found from
\* the left; `piece` is the piece being read and `acc` the pieces read.
RECURSIVE split(_, _, _)
split(rest, piece, acc) ==
    IF rest = << >> THEN Append(acc, piece)
    ELSE IF Len(rest) >= 2 /\ rest[1] = "." /\ rest[2] = " "
         THEN split(SubSeq(rest, 3, Len(rest)), << >>, Append(acc, piece))
         ELSE split(Tail(rest), Append(piece, Head(rest)), acc)

\* re.split(r'(?<=[.!?])\s+', text): the pieces between the runs of blanks
\* that follow a '.', '!' or '?'; `prev` is the character read last.
RECURSIVE re_split(_, _, _, _)
re_split(rest, piece, acc, prev) ==
    IF rest = << >> THEN Append(acc, piece)
    ELSE IF Head(rest) = " " /\ prev \in { ".", "!", "?" }
         THEN re_split(LStrip(rest), << >>, Append(acc, piece), " ")
         ELSE re_split(Tail(rest), Append(piece, Head(rest)), acc, Head(rest))

\* chunk_text, lines 286-295: the loop over the sentences and the last chunk.
\* `if current_chunk` is true of every string that is not empty.
RECURSIVE chunk_text_loop(_, _, _, _)
chunk_text_loop(sentences, current_chunk, chunks, max_chunk_size) ==
    IF sentences = << >>
    THEN IF current_chunk # << >> THEN Append(chunks, Strip(current_chunk)) ELSE chunks
    ELSE LET sentence == Head(sentences)
         IN  IF Len(current_chunk) + Len(sentence) <= max_chunk_size
             THEN chunk_text_loop(Tail(sentences), current_chunk \o sentence \o << " " >>,
                                  chunks, max_chunk_size)
             ELSE chunk_text_loop(Tail(sentences), sentence \o << " " >>,
                                  IF current_chunk # << >>
                                  THEN Append(chunks, Strip(current_chunk))
                                  ELSE chunks,
                                  max_chunk_size)

chunk_text(text, max_chunk_size) ==
    IF Len(text) <= max_chunk_size THEN << text >>
    ELSE chunk_text_loop(re_split(text, << >>, << >>, ""), << >>, << >>, max_chunk_size)

\* create_chunks, lines 35-45: the loop over the sentences and the last chunk.
RECURSIVE create_chunks_loop(_, _, _, _)
create_chunks_loop(sentences, current_chunk, chunks, chunk_size) ==
    IF sentences = << >>
    THEN IF Strip(current_chunk) # << >> THEN Append(chunks, Strip(current_chunk))
         ELSE chunks
    ELSE LET sentence == Head(sentences)
         IN  IF Len(current_chunk) + Len(sentence) <= chunk_size
             THEN create_chunks_loop(Tail(sentences),
                                     current_chunk \o sentence \o << ".", " " >>,
                                     chunks, chunk_size)
             ELSE create_chunks_loop(Tail(sentences), sentence \o << ".", " " >>,
                                     IF Strip(current_chunk) # << >>
                                     THEN Append(chunks, Strip(current_chunk))
                                     ELSE chunks,
                                     chunk_size)

\* prev_chunk[-overlap:] if len(prev_chunk) > overlap else prev_chunk
\* (a slice from -0 is the whole string).
overlap_text(prev_chunk, overlap) ==
    IF Len(prev_chunk) > overlap /\ overlap > 0
    THEN SubSeq(prev_chunk, Len(prev_chunk) - overlap + 1, Len(prev_chunk))
    ELSE prev_chunk

\* Lines 48-56: every chunk but the first starts with the end of the chunk
\* before it and a blank.
overlapping_chunks(chunks, overlap) ==
    [ i \in 1 .. Len(chunks) |->
        IF i > 1 THEN overlap_text(chunks[i - 1], overlap) \o << " " >> \o chunks[i]
        ELSE chunks[i] ]

create_chunks(text, chunk_size, overlap) ==
    overlapping_chunks(
        create_chunks_loop(split(text, << >>, << >>), << >>, << >>, chunk_size),
        overlap)

NoChunks == [ fn |-> None, chunks |-> << >> ]

ChunkIdle ==
    /\ ch_text = << >>
    /\ ch_size = 1
    /\ ch_overlap = 0
    /\ ch_out = NoChunks

\* The arguments of one chunking call.
ChunkInputs ==
    /\ ch_text \in Texts
    /\ ch_size \in 1 .. MaxChunkSize
    /\ ch_overlap \in 0 .. MaxOverlap
    /\ ch_out = NoChunks

CallChunkText ==
    /\ ch_out = NoChunks
    /\ ch_out' = [ fn |-> "chunk_text", chunks |-> chunk_text(ch_text, ch_size) ]
    /\ UNCHANGED << outsideChunk, ch_text, ch_size, ch_overlap >>

CallCreateChunks ==
    /\ ch_out = NoChunks
    /\ ch_out' = [ fn |-> "create_chunks",
                   chunks |-> create_chunks(ch_text, ch_size, ch_overlap) ]
    /\ UNCHANGED << outsideChunk, ch_text, ch_size, ch_overlap >>

ChunkNext ==
    \/ CallChunkText
    \/ CallCreateChunks

\* ------------------------------------------------------------ claim C20
\* Whitespace normalization: runs of blanks become one blank, and the blanks
\* at both ends go.
RECURSIVE Squeeze(_)
Squeeze(s) ==
    IF Len(s) < 2 THEN s
    ELSE IF s[1] = " " /\ s[2] = " " THEN Squeeze(Tail(s))
         ELSE << s[1] >> \o Squeeze(Tail(s))

Normalize(s) == Strip(Squeeze(s))

\* The chunks joined in order, a blank between two chunks.
RECURSIVE Join(_)
Join(chunks) ==
    IF chunks = << >> THEN << >>
    ELSE IF Len(chunks) = 1 THEN chunks[1]
         ELSE chunks[1] \o << " " >> \o Join(Tail(chunks))

\* The chunks of create_chunks without the overlap prefix: chunk i lost the
\* end of chunk i - 1 (itself taken without its prefix) and one blank.
RECURSIVE WithoutOverlap(_, _, _)
WithoutOverlap(chunks, prev_chunk, overlap) ==
    IF chunks = << >> THEN << >>
    ELSE LET skip  == Len(overlap_text(prev_chunk, overlap)) + 1
             chunk == SubSeq(Head(chunks), skip + 1, Len(Head(chunks)))
         IN  << chunk >> \o WithoutOverlap(Tail(chunks), chunk, overlap)

Designed(out) ==
    IF out.fn = "create_chunks" /\ out.chunks # << >>
    THEN << out.chunks[1] >> \o WithoutOverlap(Tail(out.chunks), out.chunks[1], ch_overlap)
    ELSE out.chunks

\* C20: for chunk_text and for create_chunks, the chunks joined in order,
\* without the overlap prefixes, are the source text up to whitespace
\* normalization.
C20_LosslessChunking ==
    ch_out # NoChunks => Normalize(Join(Designed(ch_out))) = Normalize(ch_text)

\* ------------------------------------------------------------ claim C21
\* A chunk made of one sentence: no sentence boundary of the function that
\* made it lies inside the chunk.
OneSentence(fn, chunk) ==
    IF fn = "chunk_text" THEN Len(re_split(chunk, << >>, << >>, "")) = 1
    ELSE Len(split(chunk, << >>, << >>)) = 1

\* C21: a chunk of chunk_text, and a chunk create_chunks returns (overlap
\* prefix included), is no longer than the chunk size, unless it is made of
\* one sentence that alone is longer than the chunk size.
C21_ChunkSizeBound ==
    ch_out # NoChunks =>
        \A i \in 1 .. Len(ch_out.chunks) :
            \/ Len(ch_out.chunks[i]) <= ch_size
            \/ /\ OneSentence(ch_out.fn, Designed(ch_out)[i])
               /\ Len(Designed(ch_out)[i]) > ch_size

\* The part of C21 that holds: the bound for chunk_text.
C21_ChunkTextBound ==
    ch_out.fn = "chunk_text" => C21_ChunkSizeBound

\* ======================================================================
\* VectorSearchEngine (src/ai_service/vector_search.py): build_index, search,
\* get_index_stats, clear_index on the one engine of the process.
\* ======================================================================
\* Words that the vectorizer keeps as terms, and an English stop word, which
\* it drops. A word counts as one character of a text.
Words == { "x", "y" }

StopWords == { "the" }

\* The text made of the given sentences, one word each: "x. y. x."
RECURSIVE TextOf(_)
TextOf(ws) ==
    IF ws = << >> THEN << >>
    ELSE IF Len(ws) = 1 THEN << ws[1], "." >>
         ELSE << ws[1], ".", " " >> \o TextOf(Tail(ws))

\* The texts handed to build_index: up to MaxSentences sentences, the empty
\* text, and a text of stop words only.
IndexTexts ==
    { TextOf(ws) : ws \in SeqsUpTo(Words, MaxSentences) } \cup { << "the", "." >> }

\* The query texts, by the words in them.
Queries == SUBSET Words

\* The terms TfidfVectorizer(stop_words='english') finds in a text.
Terms(text) == { c \in Range(text) : c \in Words }

NoVectorizer == [ state |-> None, vocabulary |-> { } ]

NoIndex == [ present |-> FALSE, vectors |-> << >> ]

NoEngineCall ==
    [ op |-> None, query |-> { }, top_k |-> 0, ok |-> FALSE, results |-> << >>,
      status |-> None, total_chunks |-> 0 ]

\* VectorSearchEngine.__init__, and no request being served.
IndexIdle ==
    /\ ve_vectorizer = NoVectorizer
    /\ ve_index = NoIndex
    /\ ve_chunks = << >>
    /\ ve_chunk_metadata = << >>
    /\ ve_call = NoEngineCall
    /\ ve_history = "new"
    /\ ve_source = << >>

\* Lines 99-107: the metadata of chunk i (chunk_index counts from 0).
Metadata(chunks) ==
    [ i \in 1 .. Len(chunks) |-> [ chunk_index |-> i - 1, chunk_size |-> Len(chunks[i]) ] ]

Vocabulary(chunks) == UNION { Terms(chunks[i]) : i \in 1 .. Len(chunks) }

\* Lines 66-113 when fit_transform finds terms: every field is replaced.
BuildIndex(text) ==
    LET chunks == create_chunks(text, DefaultChunkSize, DefaultOverlap)
    IN  /\ ve_call = NoEngineCall
        /\ chunks # << >>
        /\ Vocabulary(chunks) # { }
        /\ ve_vectorizer' = [ state |-> "fitted", vocabulary |-> Vocabulary(chunks) ]
        /\ ve_index' = [ present |-> TRUE,
                         vectors |-> [ i \in 1 .. Len(chunks) |-> Terms(chunks[i]) ] ]
        /\ ve_chunks' = chunks
        /\ ve_chunk_metadata' = Metadata(chunks)
        /\ ve_call' = [ NoEngineCall EXCEPT !.op = "build_index", !.ok = TRUE ]
        /\ ve_history' = "built"
        /\ ve_source' = text
        /\ UNCHANGED outsideIndex

\* Lines 66-82, 115-117 when the chunks hold no term: line 72 has replaced the
\* vectorizer by a new one, fit_transform raises ValueError (empty vocabulary)
\* and build_index returns False; index and chunks are the ones of before.
BuildIndexFails(text) ==
    LET chunks == create_chunks(text, DefaultChunkSize, DefaultOverlap)
    IN  /\ ve_call = NoEngineCall
        /\ chunks # << >>
        /\ Vocabulary(chunks) = { }
        /\ ve_vectorizer' = [ state |-> "unfitted", vocabulary |-> { } ]
        /\ ve_call' = [ NoEngineCall EXCEPT !.op = "build_index", !.ok = FALSE ]
        /\ UNCHANGED << outsideIndex, ve_index, ve_chunks, ve_chunk_metadata,
                        ve_history, ve_source >>

\* The similarity of a query and an indexed chunk: the squared cosine of their
\* term vectors, in percent; it stands for the inner product of the
\* normalised TF-IDF vectors (lines 127-129, 92). A query or a chunk without
\* a term of the vocabulary has the zero vector.
Similarity(query, vector, vocabulary) ==
    LET q == query \cap vocabulary
    IN  IF q = { } \/ vector = { } THEN 0
        ELSE (100 * Cardinality(q \cap vector) * Cardinality(q \cap vector))
                 \div (Cardinality(q) * Cardinality(vector))

\* The score faiss reports with the label -1 (the lowest float).
NoScore == -1

\* Mutant of IndexSearch: the labels come in the order of the index.
IndexSearchInIndexOrder(vectors, query, vocabulary, k) ==
    { [ r \in 1 .. k |->
          IF r <= Len(vectors)
          THEN [ label |-> r - 1, score |-> Similarity(query, vectors[r], vocabulary) ]
          ELSE [ label |-> -1, score |-> NoScore ] ] }

\* IndexFlatIP.search(query_embedding, k), line 132: the labels (from 0) of the
\* k vectors with the highest scores, best first, vectors of equal score in any
\* order; when the index holds fewer than k vectors the rest is filled with
\* the label -1.
IndexSearch(vectors, query, vocabulary, k) ==
    LET n     == Len(vectors)
        m     == Min(k, n)
        s(l)  == Similarity(query, vectors[l + 1], vocabulary)
        picks == { p \in [ 1 .. m -> 0 .. n - 1 ] :
                     /\ \A a, b \in 1 .. m : a < b => p[a] # p[b] /\ s(p[a]) >= s(p[b])
                     /\ \A l \in 0 .. n - 1 :
                            (\A a \in 1 .. m : p[a] # l) =>
                                \A a \in 1 .. m : s(p[a]) >= s(l) }
    IN  { [ r \in 1 .. k |->
              IF r <= m THEN [ label |-> p[r], score |-> s(p[r]) ]
              ELSE [ label |-> -1, score |-> NoScore ] ] : p \in picks }

\* list[idx] of Python: a negative idx counts from the end.
PyItem(list, idx) == IF idx >= 0 THEN list[idx + 1] ELSE list[Len(list) + idx + 1]

\* Lines 135-143: one result per hit whose label is below len(self.chunks).
RECURSIVE Results(_, _)
Results(hits, rank) ==
    IF hits = << >> THEN << >>
    ELSE LET idx  == Head(hits).label
             rest == Results(Tail(hits), rank + 1)
         IN  IF idx < Len(ve_chunks)
             THEN << [ chunk    |-> PyItem(ve_chunks, idx),
                       score    |-> Head(hits).score,
                       metadata |-> PyItem(ve_chunk_metadata, idx),
                       rank     |-> rank ] >> \o rest
             ELSE rest

\* search(query, top_k): the result lists it can return. Without index, chunks
\* or vectorizer: [] (line 124). An exception, as transform() of a vectorizer
\* that was never fitted or faiss refusing k < 1, gives [] too (line 150).
search(query, top_k) ==
    IF ~ ve_index.present \/ Len(ve_chunks) = 0 \/ ve_vectorizer.state = None
    THEN { << >> }
    ELSE IF ve_vectorizer.state = "unfitted" \/ top_k < 1
    THEN { << >> }
    ELSE { Results(hits, 1) :
             hits \in IndexSearch(ve_index.vectors, query, ve_vectorizer.vocabulary, top_k) }

Search(query, top_k) ==
    /\ ve_call = NoEngineCall
    /\ \E results \in search(query, top_k) :
           ve_call' = [ NoEngineCall EXCEPT !.op = "search", !.query = query,
                                            !.top_k = top_k, !.ok = TRUE,
                                            !.results = results ]
    /\ UNCHANGED << outsideIndex, ve_vectorizer, ve_index, ve_chunks,
                    ve_chunk_metadata, ve_history, ve_source >>

\* Lines 191-202.
GetIndexStats ==
    /\ ve_call = NoEngineCall
    /\ ve_call' = IF ~ ve_index.present
                  THEN [ NoEngineCall EXCEPT !.op = "get_index_stats", !.ok = TRUE,
                                             !.status = "no_index" ]
                  ELSE [ NoEngineCall EXCEPT !.op = "get_index_stats", !.ok = TRUE,
                                             !.status = "active",
                                             !.total_chunks = Len(ve_chunks) ]
    /\ UNCHANGED << outsideIndex, ve_vectorizer, ve_index, ve_chunks,
                    ve_chunk_metadata, ve_history, ve_source >>

\* Mutant of ClearIndex: self.index is kept.
ClearKeepsIndex ==
    /\ ve_call = NoEngineCall
    /\ ve_chunks' = << >>
    /\ ve_chunk_metadata' = << >>
    /\ ve_vectorizer' = NoVectorizer
    /\ ve_call' = [ NoEngineCall EXCEPT !.op = "clear_index", !.ok = TRUE ]
    /\ ve_history' = IF ve_history = "new" THEN "new" ELSE "cleared"
    /\ UNCHANGED << outsideIndex, ve_index, ve_source >>

\* Lines 204-217.
ClearIndex ==
    /\ ve_call = NoEngineCall
    /\ ve_index' = NoIndex
    /\ ve_chunks' = << >>
    /\ ve_chunk_metadata' = << >>
    /\ ve_vectorizer' = NoVectorizer
    /\ ve_call' = [ NoEngineCall EXCEPT !.op = "clear_index", !.ok = TRUE ]
    /\ ve_history' = IF ve_history = "new" THEN "new" ELSE "cleared"
    /\ UNCHANGED << outsideIndex, ve_source >>

\* The caller has its answer; the engine serves the next request.
Reply ==
    /\ ve_call # NoEngineCall
    /\ ve_call' = NoEngineCall
    /\ UNCHANGED << outsideIndex, ve_vectorizer, ve_index, ve_chunks,
                    ve_chunk_metadata, ve_history, ve_source >>

IndexNext ==
    \/ \E text \in IndexTexts : BuildIndex(text)
    \/ \E text \in IndexTexts : BuildIndexFails(text)
    \/ \E query \in Queries, top_k \in 0 .. MaxTopK : Search(query, top_k)
    \/ GetIndexStats
    \/ ClearIndex
    \/ Reply

\* ---------------------------------------------------- claims C17 .. C19
\* An index is active from a build_index that returned True to the next
\* clear_index.
IndexActive == ve_history = "built"

LastResults == ve_call.results

Searched == ve_call.op = "search"

\* The number of sentences of a text: its full stops.
Sentences(text) == Cardinality({ i \in 1 .. Len(text) : text[i] = "." })

\* C17: search returns at most min(top_k, number of chunks) results and no
\* chunk twice; and an index built from 3 sentences that fit the chunk size
\* holds 1 chunk, reports 1 chunk and gives at most 1 result.
C17_AtMostOncePerChunk ==
    /\ Searched =>
           /\ Len(LastResults) <= Min(ve_call.top_k, Len(ve_chunks))
           /\ \A a, b \in 1 .. Len(LastResults) :
                  a # b => LastResults[a].metadata.chunk_index
                               # LastResults[b].metadata.chunk_index
    /\ ( /\ IndexActive
         /\ Sentences(ve_source) = 3
         /\ Len(ve_source) <= DefaultChunkSize ) =>
           /\ Len(ve_chunks) = 1
           /\ ve_call.op = "get_index_stats" => ve_call.total_chunks = 1
           /\ Searched => Len(LastResults) <= 1

C19_NoIndexNoResults ==
    /\ (Searched /\ ~ IndexActive) => ve_call.ok /\ LastResults = << >>
    /\ ve_call.op = "get_index_stats" =>
           (ve_call.status = "no_index" <=> ~ IndexActive)

\* A search after clear_index, of an engine that had an index, came back
\* empty.
C19_Witness ==
    /\ Searched
    /\ ve_history = "cleared"
    /\ ve_call.top_k > 0
    /\ ve_call.query # { }
    /\ LastResults = << >>

\* ---------------------------------------------------- claims C23, C28
\* C23: in every state of the engine the vectorizer is the one fitted on the
\* chunks that are indexed, chunk i carries ordinal i (from 0), and there
\* are as many chunks as metadata entries and as indexed vectors.
C23_OneBuild ==
    /\ Len(ve_chunk_metadata) = Len(ve_chunks)
    /\ Len(ve_index.vectors) = Len(ve_chunks)
    /\ \A i \in 1 .. Len(ve_chunks) :
           /\ ve_chunk_metadata[i].chunk_index = i - 1
           /\ ve_index.vectors[i] = Terms(ve_chunks[i])
    /\ ve_index.present =>
           /\ ve_vectorizer.state = "fitted"
           /\ ve_vectorizer.vocabulary = Vocabulary(ve_chunks)

\* C28: a build_index that returns False leaves vectorizer, index, chunks and
\* metadata as they were, and every search returns what it returned before.
C28_FailedBuildChangesNothing ==
    [][ (ve_call'.op = "build_index" /\ ~ ve_call'.ok) =>
            /\ ve_vectorizer' = ve_vectorizer
            /\ ve_index' = ve_index
            /\ ve_chunks' = ve_chunks
            /\ ve_chunk_metadata' = ve_chunk_metadata
            /\ \A query \in Queries, top_k \in 0 .. MaxTopK :
                   search(query, top_k)' = search(query, top_k) ]_vars

\* ======================================================================
\* Job pipeline (src/ai_service/batch_processor.py): _process_single_job and
\* the stages it calls, and the collection of its outcome.
\* ======================================================================
\* cpu_guard(target_util=75.0).
target_util == 75

\* What psutil.cpu_percent may report.
CpuSamples == { 0, 75, 76 }

\* fitz.open / get_text raising, and open(..., encoding='utf-8').read() raising.
FitzError == "fitz.FileDataError"
DecodeError == "UnicodeDecodeError"

\* The text of the documents that have one.
DocumentTexts == { "lease", "" }

\* The files on disk: what PyMuPDF extracts from them (or its exception) and
\* what reading them as UTF-8 text gives (or its exception).
StoredFiles ==
    { [ filename |-> "a.pdf", fitz |-> "lease", plain |-> DecodeError ],
      [ filename |-> "b.pdf", fitz |-> "lease", plain |-> DecodeError ],
      [ filename |-> "b.pdf", fitz |-> "", plain |-> DecodeError ],
      [ filename |-> "a.pdf", fitz |-> FitzError, plain |-> "lease" ],
      [ filename |-> "b.pdf", fitz |-> FitzError, plain |-> DecodeError ],
      [ filename |-> "embeddings_d41d8cd98f00b204e9800998ecf8427e.pdf",
        fitz |-> "lease", plain |-> DecodeError ] }

\* Line 218: f"Error parsing file: {e}", e being the exception of PyMuPDF.
ErrorText == "Error parsing file: fitz.FileDataError"

\* Lines 223-224: hashlib.md5(content.encode()).hexdigest() and the cache file
\* results_dir / f"embeddings_{file_hash}.json" named after it.
md5(content) ==
    CASE content = "" -> "d41d8cd98f00b204e9800998ecf8427e"
      [] content = "lease" -> "md5(lease)"
      [] content = ErrorText -> "md5(Error parsing file)"

cache_file(file_hash) ==
    CASE file_hash = md5("") -> "results/embeddings_d41d8cd98f00b204e9800998ecf8427e.json"
      [] file_hash = md5("lease") -> "results/embeddings_md5(lease).json"
      [] file_hash = md5(ErrorText) -> "results/embeddings_md5(Error parsing file).json"

NoPipelineJob ==
    [ file |-> [ filename |-> None, fitz |-> None, plain |-> None ],
      status |-> None, guards |-> << >>, content |-> None, embeddings |-> None,
      doc_type |-> None, future |-> None, result_path |-> None ]

PipelineIdle ==
    /\ pl_pc = "idle"
    /\ pl_job = NoPipelineJob
    /\ pl_results_dir = {}
    /\ pl_finished = << >>

\* Line 169: job.status = "running"; the pipeline is at the cpu_guard of
\* line 172.
ProcessSingleJob(file) ==
    /\ pl_pc = "idle"
    /\ Len(pl_finished) < MaxPipelineJobs
    /\ pl_job' = [ NoPipelineJob EXCEPT !.file = file, !.status = "running" ]
    /\ pl_pc' = "cpu_guard"
    /\ UNCHANGED << outsidePipeline, pl_results_dir, pl_finished >>

\* The stage that follows a cpu_guard call: _parse_pdf after the call of line
\* 172, the mock LLM call after the one of line 242.
AfterGuard == IF pl_pc = "cpu_guard" THEN "parse_pdf" ELSE "llm"

\* One cpu_guard call as the job's record keeps it: whether sampling raised,
\* the sample, the number of samples taken and the number of time.sleep(1).
Guard(failed, sample, sleeps) ==
    [ failed |-> failed, sample |-> sample, samples |-> 1, sleeps |-> sleeps ]

\* Lines 59-63, mutated: sleeps at the target too.
CpuGuardSleepsAtTarget(sample) ==
    /\ pl_pc \in { "cpu_guard", "llm_cpu_guard" }
    /\ sample >= target_util
    /\ pl_job' = [ pl_job EXCEPT !.guards = Append(@, Guard(FALSE, sample, 1)) ]
    /\ pl_pc' = AfterGuard
    /\ UNCHANGED << outsidePipeline, pl_results_dir, pl_finished >>

\* Lines 59-63: the sample is above the target: one time.sleep(1), then the
\* call returns.
CpuGuardSleeps(sample) ==
    /\ pl_pc \in { "cpu_guard", "llm_cpu_guard" }
    /\ sample > target_util
    /\ pl_job' = [ pl_job EXCEPT !.guards = Append(@, Guard(FALSE, sample, 1)) ]
    /\ pl_pc' = AfterGuard
    /\ UNCHANGED << outsidePipeline, pl_results_dir, pl_finished >>

\* Lines 59-60: the sample is not above the target: the call returns at once.
CpuGuardPasses(sample) ==
    /\ pl_pc \in { "cpu_guard", "llm_cpu_guard" }
    /\ ~ (sample > target_util)
    /\ pl_job' = [ pl_job EXCEPT !.guards = Append(@, Guard(FALSE, sample, 0)) ]
    /\ pl_pc' = AfterGuard
    /\ UNCHANGED << outsidePipeline, pl_results_dir, pl_finished >>

\* Lines 64-65: psutil.cpu_percent raises; the exception is logged and the
\* call returns.
CpuGuardSamplingFails ==
    /\ pl_pc \in { "cpu_guard", "llm_cpu_guard" }
    /\ pl_job' = [ pl_job EXCEPT !.guards = Append(@, Guard(TRUE, 0, 0)) ]
    /\ pl_pc' = AfterGuard
    /\ UNCHANGED << outsidePipeline, pl_results_dir, pl_finished >>

\* Lines 198-209: PyMuPDF opens the file and the text of its pages is returned.
ParsePdf ==
    /\ pl_pc = "parse_pdf"
    /\ pl_job.file.fitz # FitzError
    /\ pl_job' = [ pl_job EXCEPT !.content = pl_job.file.fitz ]
    /\ pl_pc' = "build_embeddings"
    /\ UNCHANGED << outsidePipeline, pl_results_dir, pl_finished >>

\* Lines 211-216: PyMuPDF raises; the file is read as UTF-8 text.
ParsePdfFallback ==
    /\ pl_pc = "parse_pdf"
    /\ pl_job.file.fitz = FitzError
    /\ pl_job.file.plain # DecodeError
    /\ pl_job' = [ pl_job EXCEPT !.content = pl_job.file.plain ]
    /\ pl_pc' = "build_embeddings"
    /\ UNCHANGED << outsidePipeline, pl_results_dir, pl_finished >>

\* Lines 217-218: reading the file as text raises too; the message of the first
\* exception is returned as the content.
ParsePdfError ==
    /\ pl_pc = "parse_pdf"
    /\ pl_job.file.fitz = FitzError
    /\ pl_job.file.plain = DecodeError
    /\ pl_job' = [ pl_job EXCEPT !.content = ErrorText ]
    /\ pl_pc' = "build_embeddings"
    /\ UNCHANGED << outsidePipeline, pl_results_dir, pl_finished >>

\* Lines 223-228: a file with the name of the content's cache file exists
\* (nothing but _save_result writes into results_dir).
BuildEmbeddingsCached ==
    /\ pl_pc = "build_embeddings"
    /\ cache_file(md5(pl_job.content)) \in pl_results_dir
    /\ pl_job' = [ pl_job EXCEPT !.embeddings = "cached_embeddings" ]
    /\ pl_pc' = "llm_cpu_guard"
    /\ UNCHANGED << outsidePipeline, pl_results_dir, pl_finished >>

\* Lines 223-233: no cache file: "new_embeddings" is returned; no file is
\* written. The with-block of _extract_with_llm is entered next (line 238).
BuildEmbeddingsNew ==
    /\ pl_pc = "build_embeddings"
    /\ cache_file(md5(pl_job.content)) \notin pl_results_dir
    /\ pl_job' = [ pl_job EXCEPT !.embeddings = "new_embeddings" ]
    /\ pl_pc' = "llm_cpu_guard"
    /\ UNCHANGED << outsidePipeline, pl_results_dir, pl_finished >>

\* Lines 244-268: the mock extraction result.
ExtractWithLlm ==
    /\ pl_pc = "llm"
    /\ pl_job' = [ pl_job EXCEPT !.doc_type = "mock_document" ]
    /\ pl_pc' = "save_result"
    /\ UNCHANGED << outsidePipeline, pl_results_dir, pl_finished >>

\* Lines 273-281 and 186-190: the result file is written and the job's future
\* holds the result.
SaveResultFile ==
    /\ pl_pc = "save_result"
    /\ pl_results_dir' = pl_results_dir \cup { ResultPath(pl_job.file.filename) }
    /\ pl_job' = [ pl_job EXCEPT !.future = "result" ]
    /\ pl_pc' = "collect"
    /\ UNCHANGED << outsidePipeline, pl_finished >>

\* Lines 277 and 192-194: open() raises (disk full, no permission); the job's
\* future holds the exception.
SaveResultRaises ==
    /\ pl_pc = "save_result"
    /\ pl_job' = [ pl_job EXCEPT !.future = "exception" ]
    /\ pl_pc' = "collect"
    /\ UNCHANGED << outsidePipeline, pl_results_dir, pl_finished >>

\* Lines 150-163: the collect loop of _process_batch takes the future's outcome.
CollectJob ==
    /\ pl_pc = "collect"
    /\ LET collected ==
             IF pl_job.future = "result"
             THEN [ pl_job EXCEPT !.status = "done",
                                  !.result_path = ResultPath(pl_job.file.filename) ]
             ELSE [ pl_job EXCEPT !.status = "error" ]
       IN  pl_finished' = Append(pl_finished, collected)
    /\ pl_job' = NoPipelineJob
    /\ pl_pc' = "idle"
    /\ UNCHANGED << outsidePipeline, pl_results_dir >>

PipelineNext ==
    \/ \E file \in StoredFiles : ProcessSingleJob(file)
    \/ \E sample \in CpuSamples : CpuGuardSleeps(sample)
    \/ \E sample \in CpuSamples : CpuGuardPasses(sample)
    \/ CpuGuardSamplingFails
    \/ ParsePdf
    \/ ParsePdfFallback
    \/ ParsePdfError
    \/ BuildEmbeddingsCached
    \/ BuildEmbeddingsNew
    \/ ExtractWithLlm
    \/ SaveResultFile
    \/ SaveResultRaises
    \/ CollectJob

\* --------------------------------------------------- claims C24, C26, C27
\* The jobs of the run in the order in which they entered the pipeline.
PipelineJobs ==
    IF pl_job = NoPipelineJob THEN pl_finished ELSE Append(pl_finished, pl_job)

\* C24: once a job has built the embeddings for a content with hash h, every
\* later job whose content has the same hash gets the cached embeddings.
C24_CachedByContentHash ==
    \A i \in 1 .. Len(PipelineJobs), k \in 1 .. Len(PipelineJobs) :
        ( /\ i < k
          /\ PipelineJobs[i].embeddings = "new_embeddings"
          /\ PipelineJobs[k].embeddings # None
          /\ md5(PipelineJobs[k].content) = md5(PipelineJobs[i].content) )
        => PipelineJobs[k].embeddings = "cached_embeddings"

\* The texts that can be recovered from a file: what PyMuPDF extracts, what
\* reading it as text gives, or nothing.
Recovered(file) == ( { file.fitz, file.plain } \ { FitzError, DecodeError } ) \cup { "" }

\* C26: a job whose text extraction failed is not moved to error by it; it
\* goes on through indexing, generation and persistence with the text that
\* was recovered from its file, or with the empty text.
C26_ExtractionDegrades ==
    \A i \in 1 .. Len(PipelineJobs) :
        LET j == PipelineJobs[i]
        IN  /\ j.content # None => j.content \in Recovered(j.file)
            /\ j.status = "error" => j.doc_type # None

\* The half of C26 that holds: no job is in error before its generation
\* stage has returned, whatever the extraction did.
C26_NoErrorFromExtraction ==
    \A i \in 1 .. Len(PipelineJobs) :
        PipelineJobs[i].status = "error" => PipelineJobs[i].doc_type # None

\* A job whose two extraction paths failed and that is done.
C26_DoneAfterFailure ==
    \E i \in 1 .. Len(pl_finished) :
        /\ pl_finished[i].file.fitz = FitzError
        /\ pl_finished[i].file.plain = DecodeError
        /\ pl_finished[i].status = "done"

\* The number of cpu_guard calls that have returned to a pipeline at pc.
GuardCalls(pc) ==
    CASE pc \in { "idle", "cpu_guard" } -> 0
      [] pc \in { "parse_pdf", "build_embeddings", "llm_cpu_guard" } -> 1
      [] OTHER -> 2

\* C27: every cpu_guard call returns to the pipeline, after one sample; it
\* sleeps once when the sample is above the target and not at all when the
\* sample is at or below the target or when sampling raised; no job is in
\* error before both of its cpu_guard calls returned and its generation
\* stage was over.
C27_GuardOnlyDelays ==
    /\ pl_job # NoPipelineJob => Len(pl_job.guards) = GuardCalls(pl_pc)
    /\ \A i \in 1 .. Len(pl_finished) :
           /\ Len(pl_finished[i].guards) = 2
           /\ pl_finished[i].status = "error" => pl_finished[i].doc_type # None
    /\ \A i \in 1 .. Len(PipelineJobs) :
           \A n \in 1 .. Len(PipelineJobs[i].guards) :
               LET g == PipelineJobs[i].guards[n]
               IN  /\ g.samples = 1
                   /\ g.sleeps = IF ~ g.failed /\ g.sample > target_util THEN 1 ELSE 0

\* A job that is done after a cpu_guard whose sampling raised and one that
\* slept, and a job that is done after a cpu_guard that sampled the target.
C27_Witness ==
    \E i \in 1 .. Len(pl_finished), k \in 1 .. Len(pl_finished) :
        /\ pl_finished[i].status = "done"
        /\ pl_finished[i].guards[1].failed
        /\ pl_finished[i].guards[2].sleeps = 1
        /\ pl_finished[k].status = "done"
        /\ ~ pl_finished[k].guards[1].failed
        /\ pl_finished[k].guards[1].sample = target_util
        /\ pl_finished[k].guards[1].sleeps = 0

\* ======================================================================
\* Model warm-up (src/ai_service/warmup_util.py warm_up_model,
\* src/ai_service/warmup_daemon.py perform_warmup).
\* ======================================================================
\* warmup_daemon.py line 44: warm_up_model(ollama_host, retries=3).
DaemonRetries == 3

\* The ways an attempt fails: requests.post raises (no connection, timeout),
\* the status is not 200, the body is not JSON (response.json() raises), the
\* JSON has no or an empty "response".
FailedOutcomes == { "exception", "non200", "invalid_json", "empty" }

Request(outcome) == [ kind |-> "request", outcome |-> outcome ]
Sleep == [ kind |-> "sleep", outcome |-> None ]

WarmupIdle ==
    /\ wu_pc = "idle"
    /\ wu_caller = None
    /\ wu_retries = 0
    /\ wu_attempt = 0
    /\ wu_log = << >>
    /\ wu_result = None

\* warmup_util.py lines 11-39: a direct call (the default retries is 3).
WarmUpModel(retries) ==
    /\ wu_pc = "idle"
    /\ wu_pc' = "loop"
    /\ wu_caller' = "direct"
    /\ wu_retries' = retries
    /\ UNCHANGED << outsideWarmup, wu_attempt, wu_log, wu_result >>

\* warmup_daemon.py lines 34-44: warm-up is enabled; warm_up_model is called
\* with retries=3.
PerformWarmup ==
    /\ wu_pc = "idle"
    /\ wu_pc' = "loop"
    /\ wu_caller' = "perform_warmup"
    /\ wu_retries' = DaemonRetries
    /\ UNCHANGED << outsideWarmup, wu_attempt, wu_log, wu_result >>

\* warmup_daemon.py lines 34-36: WARMUP_ON_START is not 'true'; perform_warmup
\* returns without calling warm_up_model.
PerformWarmupDisabled ==
    /\ wu_pc = "idle"
    /\ wu_pc' = "returned"
    /\ wu_caller' = "perform_warmup"
    /\ UNCHANGED << outsideWarmup, wu_retries, wu_attempt, wu_log, wu_result >>

\* Lines 40-54: the request is answered with status 200 and a non-empty
\* "response": return True.
AttemptSucceeds ==
    /\ wu_pc = "loop"
    /\ wu_attempt < wu_retries
    /\ wu_log' = Append(wu_log, Request("ok"))
    /\ wu_result' = "True"
    /\ wu_pc' = "returned"
    /\ UNCHANGED << outsideWarmup, wu_caller, wu_retries, wu_attempt >>

\* Lines 40-59: the attempt fails; nothing is returned.
AttemptFails(outcome) ==
    /\ wu_pc = "loop"
    /\ wu_attempt < wu_retries
    /\ wu_log' = Append(wu_log, Request(outcome))
    /\ wu_pc' = "after"
    /\ UNCHANGED << outsideWarmup, wu_caller, wu_retries, wu_attempt, wu_result >>

\* Lines 61-64, mutated: sleeps after the last attempt too.
WaitAfterEveryAttempt ==
    /\ wu_pc = "after"
    /\ wu_log' = Append(wu_log, Sleep)
    /\ wu_attempt' = wu_attempt + 1
    /\ wu_pc' = "loop"
    /\ UNCHANGED << outsideWarmup, wu_caller, wu_retries, wu_result >>

\* Lines 61-64: not the last attempt: time.sleep(10), then the next iteration.
Wait ==
    /\ wu_pc = "after"
    /\ wu_attempt < wu_retries - 1
    /\ wu_log' = Append(wu_log, Sleep)
    /\ wu_attempt' = wu_attempt + 1
    /\ wu_pc' = "loop"
    /\ UNCHANGED << outsideWarmup, wu_caller, wu_retries, wu_result >>

\* Line 61: the last attempt: no sleep; the loop ends.
NoWait ==
    /\ wu_pc = "after"
    /\ ~ (wu_attempt < wu_retries - 1)
    /\ wu_attempt' = wu_attempt + 1
    /\ wu_pc' = "loop"
    /\ UNCHANGED << outsideWarmup, wu_caller, wu_retries, wu_log, wu_result >>

\* Lines 40 and 66-67: range(retries) is exhausted: return False.
ReturnFalse ==
    /\ wu_pc = "loop"
    /\ ~ (wu_attempt < wu_retries)
    /\ wu_result' = "False"
    /\ wu_pc' = "returned"
    /\ UNCHANGED << outsideWarmup, wu_caller, wu_retries, wu_attempt, wu_log >>

WarmupNext ==
    \/ \E retries \in 0 .. MaxRetries : WarmUpModel(retries)
    \/ PerformWarmup
    \/ PerformWarmupDisabled
    \/ AttemptSucceeds
    \/ \E outcome \in FailedOutcomes : AttemptFails(outcome)
    \/ Wait
    \/ NoWait
    \/ ReturnFalse

\* ------------------------------------------------------------ claim C30
RequestsSent == { i \in 1 .. Len(wu_log) : wu_log[i].kind = "request" }

\* C30: warm_up_model sends at most `retries` requests; a request answered
\* with 200 and a non-empty response is the last thing it does before
\* returning True; it returns False only after exactly `retries` requests, all
\* failed; every two consecutive requests have one sleep between them, and a
\* sleep is always followed by a further request.
C30_WarmupAttempts ==
    /\ Cardinality(RequestsSent) <= wu_retries
    /\ \A i \in RequestsSent :
           wu_log[i].outcome = "ok" => i = Len(wu_log) /\ wu_result = "True"
    /\ wu_result = "True" =>
           /\ wu_log # << >>
           /\ wu_log[Len(wu_log)] = Request("ok")
    /\ wu_result = "False" =>
           /\ Cardinality(RequestsSent) = wu_retries
           /\ \A i \in RequestsSent : wu_log[i].outcome \in FailedOutcomes
    /\ \A i \in 1 .. Len(wu_log) :
           /\ i \in RequestsSent /\ i + 1 \in RequestsSent => FALSE
           /\ wu_log[i] = Sleep =>
                  /\ i - 1 \in RequestsSent
                  /\ Cardinality({ r \in RequestsSent : r < i }) < wu_retries
                  /\ i = Len(wu_log) => wu_pc = "loop"

\* Both ends of C30: a call that returned True on its third request after two
\* sleeps, or False after three failed requests and two sleeps.
C30_Witness ==
    /\ wu_pc = "returned"
    /\ wu_retries = 3
    /\ Len(wu_log) = 5
    /\ wu_result \in { "True", "False" }

\* ======================================================================
\* VectorSearchEngine under concurrent requests (vector_search.py): the
\* statements of build_index, clear_index and search, one field access at a
\* time. No statement of the three takes a lock.
\* ======================================================================
\* The documents indexed in a run.
RaceTexts == { TextOf(<< "x" >>), TextOf(<< "y" >>), TextOf(<< "x", "y", "x", "y" >>),
               << "the", "." >> }

\* The column of a term in the matrix of a vectorizer: its rank in the sorted
\* vocabulary.
WordRank(w) == IF w = "x" THEN 0 ELSE 1

Column(term, vocabulary) ==
    Cardinality({ w \in vocabulary : WordRank(w) < WordRank(term) })

\* The non-zero columns of the vector of a text under a vocabulary.
Columns(terms, vocabulary) == { Column(t, vocabulary) : t \in terms \cap vocabulary }

NoRaceVectorizer == [ build |-> 0, state |-> None, vocabulary |-> { } ]
NoRaceIndex == [ build |-> 0, present |-> FALSE, d |-> 0, vectors |-> << >> ]
NoList == [ build |-> 0, list |-> << >> ]

NoWriter == [ op |-> None, pc |-> "idle", chunks |-> << >>, build |-> 0 ]

NoSearch ==
    [ pc |-> "idle", query |-> { }, top_k |-> 0, query_build |-> 0,
      embedding |-> { }, d |-> 0, hits |-> << >>, index_build |-> 0,
      results |-> << >> ]

RaceIdle ==
    /\ rc_vectorizer = NoRaceVectorizer
    /\ rc_index = NoRaceIndex
    /\ rc_chunks = NoList
    /\ rc_chunk_metadata = NoList
    /\ rc_writer = NoWriter
    /\ rc_search = NoSearch

\* ------------------------------------------------- build_index, by line
\* Line 66 (create_chunks never returns an empty list, so lines 67-69 are
\* not taken).
BuildCreateChunks(text) ==
    /\ rc_writer.pc = "idle"
    /\ rc_writer.build < MaxWrites
    /\ rc_writer' = [ op |-> "build_index", pc |-> "vectorizer",
                      chunks |-> create_chunks(text, DefaultChunkSize, DefaultOverlap),
                      build |-> rc_writer.build + 1 ]
    /\ UNCHANGED << outsideRace, rc_vectorizer, rc_index, rc_chunks,
                    rc_chunk_metadata, rc_search >>

\* Line 72: self.vectorizer = TfidfVectorizer(...).
BuildNewVectorizer ==
    /\ rc_writer.pc = "vectorizer"
    /\ rc_vectorizer' = [ build |-> rc_writer.build, state |-> "unfitted",
                          vocabulary |-> { } ]
    /\ rc_writer' = [ rc_writer EXCEPT !.pc = "fit" ]
    /\ UNCHANGED << outsideRace, rc_index, rc_chunks, rc_chunk_metadata, rc_search >>

\* Line 82: fit_transform fits the vectorizer.
BuildFit ==
    /\ rc_writer.pc = "fit"
    /\ Vocabulary(rc_writer.chunks) # { }
    /\ rc_vectorizer' = [ rc_vectorizer EXCEPT !.state = "fitted",
                                               !.vocabulary = Vocabulary(rc_writer.chunks) ]
    /\ rc_writer' = [ rc_writer EXCEPT !.pc = "index" ]
    /\ UNCHANGED << outsideRace, rc_index, rc_chunks, rc_chunk_metadata, rc_search >>

\* Lines 82, 115-117: fit_transform raises (empty vocabulary); return False.
BuildFitRaises ==
    /\ rc_writer.pc = "fit"
    /\ Vocabulary(rc_writer.chunks) = { }
    /\ rc_writer' = [ rc_writer EXCEPT !.pc = "idle", !.op = None, !.chunks = << >> ]
    /\ UNCHANGED << outsideRace, rc_vectorizer, rc_index, rc_chunks,
                    rc_chunk_metadata, rc_search >>

\* Lines 88-89: self.index = faiss.IndexFlatIP(dimension), an empty index.
BuildNewIndex ==
    /\ rc_writer.pc = "index"
    /\ rc_index' = [ build |-> rc_writer.build, present |-> TRUE,
                     d |-> Cardinality(Vocabulary(rc_writer.chunks)), vectors |-> << >> ]
    /\ rc_writer' = [ rc_writer EXCEPT !.pc = "add" ]
    /\ UNCHANGED << outsideRace, rc_vectorizer, rc_chunks, rc_chunk_metadata, rc_search >>

\* Line 95: self.index.add(embeddings).
BuildAdd ==
    /\ rc_writer.pc = "add"
    /\ rc_index' = [ rc_index EXCEPT !.vectors =
                       [ i \in 1 .. Len(rc_writer.chunks) |->
                           Columns(Terms(rc_writer.chunks[i]),
                                   Vocabulary(rc_writer.chunks)) ] ]
    /\ rc_writer' = [ rc_writer EXCEPT !.pc = "chunks" ]
    /\ UNCHANGED << outsideRace, rc_vectorizer, rc_chunks, rc_chunk_metadata, rc_search >>

\* Line 98: self.chunks = chunks.
BuildStoreChunks ==
    /\ rc_writer.pc = "chunks"
    /\ rc_chunks' = [ build |-> rc_writer.build, list |-> rc_writer.chunks ]
    /\ rc_writer' = [ rc_writer EXCEPT !.pc = "metadata" ]
    /\ UNCHANGED << outsideRace, rc_vectorizer, rc_index, rc_chunk_metadata, rc_search >>

\* Lines 99-113: self.chunk_metadata = [...]; the index is saved; return True.
BuildStoreMetadata ==
    /\ rc_writer.pc = "metadata"
    /\ rc_chunk_metadata' = [ build |-> rc_writer.build,
                              list |-> Metadata(rc_writer.chunks) ]
    /\ rc_writer' = [ rc_writer EXCEPT !.pc = "idle", !.op = None, !.chunks = << >> ]
    /\ UNCHANGED << outsideRace, rc_vectorizer, rc_index, rc_chunks, rc_search >>

\* ------------------------------------------------- clear_index, by line
\* Line 206: self.index = None.
ClearIndexField ==
    /\ rc_writer.pc = "idle"
    /\ rc_writer.build < MaxWrites
    /\ rc_index' = NoRaceIndex
    /\ rc_writer' = [ op |-> "clear_index", pc |-> "clear_chunks", chunks |-> << >>,
                      build |-> rc_writer.build + 1 ]
    /\ UNCHANGED << outsideRace, rc_vectorizer, rc_chunks, rc_chunk_metadata, rc_search >>

\* Line 207: self.chunks = [].
ClearChunks ==
    /\ rc_writer.pc = "clear_chunks"
    /\ rc_chunks' = NoList
    /\ rc_writer' = [ rc_writer EXCEPT !.pc = "clear_metadata" ]
    /\ UNCHANGED << outsideRace, rc_vectorizer, rc_index, rc_chunk_metadata, rc_search >>

\* Line 208: self.chunk_metadata = [].
ClearMetadata ==
    /\ rc_writer.pc = "clear_metadata"
    /\ rc_chunk_metadata' = NoList
    /\ rc_writer' = [ rc_writer EXCEPT !.pc = "clear_vectorizer" ]
    /\ UNCHANGED << outsideRace, rc_vectorizer, rc_index, rc_chunks, rc_search >>

\* Lines 209-217: self.vectorizer = None; the saved files are removed.
ClearVectorizer ==
    /\ rc_writer.pc = "clear_vectorizer"
    /\ rc_vectorizer' = NoRaceVectorizer
    /\ rc_writer' = [ rc_writer EXCEPT !.pc = "idle", !.op = None ]
    /\ UNCHANGED << outsideRace, rc_index, rc_chunks, rc_chunk_metadata, rc_search >>

\* ------------------------------------------------------ search, by line
\* Lines 122-124: no index, no chunks or no vectorizer: return [].
SearchNoIndex(query, top_k) ==
    /\ rc_search.pc = "idle"
    /\ ~ rc_index.present \/ Len(rc_chunks.list) = 0 \/ rc_vectorizer.state = None
    /\ rc_search' = [ NoSearch EXCEPT !.pc = "returned", !.query = query,
                                      !.top_k = top_k ]
    /\ UNCHANGED << outsideRace, rc_vectorizer, rc_index, rc_chunks,
                    rc_chunk_metadata, rc_writer >>

\* Line 122: the three fields are set.
SearchBegin(query, top_k) ==
    /\ rc_search.pc = "idle"
    /\ ~ (~ rc_index.present \/ Len(rc_chunks.list) = 0 \/ rc_vectorizer.state = None)
    /\ rc_search' = [ NoSearch EXCEPT !.pc = "transform", !.query = query,
                                      !.top_k = top_k ]
    /\ UNCHANGED << outsideRace, rc_vectorizer, rc_index, rc_chunks,
                    rc_chunk_metadata, rc_writer >>

\* Lines 127-129: self.vectorizer.transform([query]).
SearchTransform ==
    /\ rc_search.pc = "transform"
    /\ rc_vectorizer.state = "fitted"
    /\ rc_search' = [ rc_search EXCEPT
                        !.pc = "index_search",
                        !.query_build = rc_vectorizer.build,
                        !.embedding = Columns(rc_search.query, rc_vectorizer.vocabulary),
                        !.d = Cardinality(rc_vectorizer.vocabulary) ]
    /\ UNCHANGED << outsideRace, rc_vectorizer, rc_index, rc_chunks,
                    rc_chunk_metadata, rc_writer >>

\* Lines 127, 148-150: self.vectorizer is None by now (AttributeError) or not
\* fitted yet (NotFittedError): return [].
SearchTransformRaises ==
    /\ rc_search.pc = "transform"
    /\ rc_vectorizer.state # "fitted"
    /\ rc_search' = [ rc_search EXCEPT !.pc = "returned", !.results = << >> ]
    /\ UNCHANGED << outsideRace, rc_vectorizer, rc_index, rc_chunks,
                    rc_chunk_metadata, rc_writer >>

\* Line 132: self.index.search(query_embedding, top_k) on the index that
\* self.index holds now.
SearchIndex ==
    /\ rc_search.pc = "index_search"
    /\ rc_index.present
    /\ rc_index.d = rc_search.d
    /\ \E hits \in IndexSearch(rc_index.vectors, rc_search.embedding,
                               0 .. rc_search.d - 1, rc_search.top_k) :
           rc_search' = [ rc_search EXCEPT !.pc = "collect", !.hits = hits,
                                           !.index_build = rc_index.build ]
    /\ UNCHANGED << outsideRace, rc_vectorizer, rc_index, rc_chunks,
                    rc_chunk_metadata, rc_writer >>

\* Lines 132, 148-150: self.index is None by now (AttributeError) or has
\* another dimension than the query vector (AssertionError): return [].
SearchIndexRaises ==
    /\ rc_search.pc = "index_search"
    /\ ~ rc_index.present \/ rc_index.d # rc_search.d
    /\ rc_search' = [ rc_search EXCEPT !.pc = "returned", !.results = << >> ]
    /\ UNCHANGED << outsideRace, rc_vectorizer, rc_index, rc_chunks,
                    rc_chunk_metadata, rc_writer >>

\* Line 141: self.chunk_metadata[idx] if idx < len(self.chunk_metadata) else {}.
MetadataItem(idx) ==
    IF idx < Len(rc_chunk_metadata.list) /\ rc_chunk_metadata.list # << >>
    THEN [ build |-> rc_chunk_metadata.build,
           chunk_index |-> PyItem(rc_chunk_metadata.list, idx).chunk_index ]
    ELSE [ build |-> 0, chunk_index |-> -1 ]

\* Lines 136-143: the next hit: its label is below len(self.chunks) and the
\* result is appended, from self.chunks and self.chunk_metadata as they are now.
SearchCollect ==
    /\ rc_search.pc = "collect"
    /\ rc_search.hits # << >>
    /\ Head(rc_search.hits).label < Len(rc_chunks.list)
    /\ rc_chunks.list # << >>
    /\ LET idx  == Head(rc_search.hits).label
           rank == rc_search.top_k - Len(rc_search.hits) + 1
       IN  rc_search' = [ rc_search EXCEPT
                            !.hits = Tail(@),
                            !.results = Append(@,
                                [ chunk       |-> PyItem(rc_chunks.list, idx),
                                  chunk_build |-> rc_chunks.build,
                                  score       |-> Head(rc_search.hits).score,
                                  query_build |-> rc_search.query_build,
                                  index_build |-> rc_search.index_build,
                                  metadata    |-> MetadataItem(idx),
                                  rank        |-> rank ]) ]
    /\ UNCHANGED << outsideRace, rc_vectorizer, rc_index, rc_chunks,
                    rc_chunk_metadata, rc_writer >>

\* Lines 136-137: the label of the next hit is not below len(self.chunks): no
\* result for it.
SearchSkip ==
    /\ rc_search.pc = "collect"
    /\ rc_search.hits # << >>
    /\ ~ (Head(rc_search.hits).label < Len(rc_chunks.list))
    /\ rc_search' = [ rc_search EXCEPT !.hits = Tail(@) ]
    /\ UNCHANGED << outsideRace, rc_vectorizer, rc_index, rc_chunks,
                    rc_chunk_metadata, rc_writer >>

\* Lines 139, 148-150: label -1 and self.chunks is empty by now: IndexError;
\* return [].
SearchCollectRaises ==
    /\ rc_search.pc = "collect"
    /\ rc_search.hits # << >>
    /\ Head(rc_search.hits).label < Len(rc_chunks.list)
    /\ rc_chunks.list = << >>
    /\ rc_search' = [ rc_search EXCEPT !.pc = "returned", !.hits = << >>,
                                       !.results = << >> ]
    /\ UNCHANGED << outsideRace, rc_vectorizer, rc_index, rc_chunks,
                    rc_chunk_metadata, rc_writer >>

\* Lines 145-146: return results.
SearchReturn ==
    /\ rc_search.pc = "collect"
    /\ rc_search.hits = << >>
    /\ rc_search' = [ rc_search EXCEPT !.pc = "returned" ]
    /\ UNCHANGED << outsideRace, rc_vectorizer, rc_index, rc_chunks,
                    rc_chunk_metadata, rc_writer >>

\* The caller has the results; the next search request may come.
SearchReply ==
    /\ rc_search.pc = "returned"
    /\ rc_search' = NoSearch
    /\ UNCHANGED << outsideRace, rc_vectorizer, rc_index, rc_chunks,
                    rc_chunk_metadata, rc_writer >>

RaceNext ==
    \/ \E text \in RaceTexts : BuildCreateChunks(text)
    \/ BuildNewVectorizer
    \/ BuildFit
    \/ BuildFitRaises
    \/ BuildNewIndex
    \/ BuildAdd
    \/ BuildStoreChunks
    \/ BuildStoreMetadata
    \/ ClearIndexField
    \/ ClearChunks
    \/ ClearMetadata
    \/ ClearVectorizer
    \/ \E query \in Queries, top_k \in 1 .. MaxRaceTopK : SearchNoIndex(query, top_k)
    \/ \E query \in Queries, top_k \in 1 .. MaxRaceTopK : SearchBegin(query, top_k)
    \/ SearchTransform
    \/ SearchTransformRaises
    \/ SearchIndex
    \/ SearchIndexRaises
    \/ SearchCollect
    \/ SearchSkip
    \/ SearchCollectRaises
    \/ SearchReturn
    \/ SearchReply

\* ------------------------------------------------------------ claim C29
\* C29: every result of a search that has returned combines a chunk, a score
\* (query vector and index) and metadata of one and the same build.
C29_OneBuildPerResult ==
    rc_search.pc = "returned" =>
        \A r \in 1 .. Len(rc_search.results) :
            LET res == rc_search.results[r]
            IN  /\ res.query_build = res.index_build
                /\ res.chunk_build = res.index_build
                /\ res.metadata.build = res.index_build

\* ===================================================== specifications
\* The batch processor on its own: the other components stay as constructed.
Init == BatchInit /\ ClientIdle /\ GatherIdle /\ ChunkIdle /\ IndexIdle
    /\ PipelineIdle /\ WarmupIdle /\ RaceIdle

Next == BatchNext

Spec == Init /\ [][Next]_vars

\* The threads of the process are OS threads: as long as one of them can take a
\* step, one of them eventually does. Clients are not obliged to submit batches.
System ==
    \/ \E b \in BatchIds : ReturnBatchId(b) \/ BatchThread(b)
    \/ \E j \in DOMAIN job : PoolThread(j)

Fairness == WF_vars(System)

\* The liveness claims are checked on a single-core host, where both budgets
\* are the tightest (one worker, one LLM permit).
FairInit == Init /\ cpu_cores = 1

FairSpec == FairInit /\ [][Next]_vars /\ Fairness

\* One generate() call of one route.
ClientInit == BatchInit /\ ClientIdle /\ GatherIdle /\ ChunkIdle /\ IndexIdle
    /\ PipelineIdle /\ WarmupIdle /\ RaceIdle

ClientSpec == ClientInit /\ [][ClientNext]_vars

\* One generate_batch() call.
GatherInit == BatchInit /\ ClientIdle /\ GatherIdle /\ ChunkIdle /\ IndexIdle
    /\ PipelineIdle /\ WarmupIdle /\ RaceIdle

GatherSpec == GatherInit /\ [][GatherNext]_vars

\* One call of chunk_text or create_chunks on given arguments.
ChunkInit == BatchInit /\ ClientIdle /\ GatherIdle /\ ChunkInputs /\ IndexIdle
    /\ PipelineIdle /\ WarmupIdle /\ RaceIdle

ChunkSpec == ChunkInit /\ [][ChunkNext]_vars

\* The requests to the vector search engine, one at a time.
IndexInit ==
    BatchInit /\ cpu_cores = 1 /\ ClientIdle /\ GatherIdle /\ ChunkIdle /\ IndexIdle
    /\ PipelineIdle /\ WarmupIdle /\ RaceIdle

IndexSpec == IndexInit /\ [][IndexNext]_vars

\* The pipeline of the jobs of one run, one job at a time.
PipelineInit ==
    /\ BatchInit /\ cpu_cores = 1
    /\ ClientIdle /\ GatherIdle /\ ChunkIdle /\ IndexIdle
    /\ PipelineIdle /\ WarmupIdle /\ RaceIdle

PipelineSpec == PipelineInit /\ [][PipelineNext]_vars

\* One warm-up of the model.
WarmupInit ==
    /\ BatchInit /\ cpu_cores = 1
    /\ ClientIdle /\ GatherIdle /\ ChunkIdle /\ IndexIdle /\ PipelineIdle
    /\ WarmupIdle /\ RaceIdle

WarmupSpec == WarmupInit /\ [][WarmupNext]_vars

\* Searches concurrent with build_index and clear_index calls.
RaceInit ==
    /\ BatchInit /\ cpu_cores = 1
    /\ ClientIdle /\ GatherIdle /\ ChunkIdle /\ IndexIdle /\ PipelineIdle
    /\ WarmupIdle /\ RaceIdle

RaceSpec == RaceInit /\ [][RaceNext]_vars

====
